---- MODULE Spec2Model ----
(***************************************************************************)
(* State-machine model of the PaddleVision landmark-to-control adapter of  *)
(* controldeck: source -> ProcessorPipeline -> output resolution -> sinks, *)
(* with the adapter's start/stop life cycle and its calibration/tuning API.*)
(***************************************************************************)
EXTENDS Integers, Sequences, FiniteSets, TLC

(***************************************************************************)
(* JavaScript numbers.  A number is a pair <<n, d>>: the rational n/d in   *)
(* lowest terms when d > 0, +Infinity = <<1,0>>, -Infinity = <<-1,0>> and  *)
(* NaN = <<0,0>>.  Signed zero is not distinguished.                       *)
(***************************************************************************)
Abs(i) == IF i < 0 THEN -i ELSE i

Sgn(i) == IF i > 0 THEN 1 ELSE IF i < 0 THEN -1 ELSE 0

RECURSIVE GCD(_, _)
GCD(a, b) == IF b = 0 THEN a ELSE GCD(b, a % b)

\* n/d with n and d divided by g > 0 and the sign carried by the numerator
Reduce(n, d, g) == <<(Sgn(d) * n) \div g, (Sgn(d) * d) \div g>>

Norm(n, d) == IF d = 0 THEN <<Sgn(n), 0>> ELSE Reduce(n, d, GCD(Abs(n), Abs(d)))

NaN == <<0, 0>>
Zero == <<0, 1>>
One == <<1, 1>>
Half == <<1, 2>>
Int2Num(i) == <<i, 1>>

IsNaN(a) == a = NaN
IsFinite(a) == a[2] > 0

NumAdd(a, b) ==
    IF IsNaN(a) \/ IsNaN(b) THEN NaN
    ELSE IF a[2] = 0 /\ b[2] = 0 THEN (IF a = b THEN a ELSE NaN)
    ELSE IF a[2] = 0 THEN a
    ELSE IF b[2] = 0 THEN b
    ELSE Norm(a[1] * b[2] + b[1] * a[2], a[2] * b[2])

NumNeg(a) == <<-a[1], a[2]>>

NumSub(a, b) == NumAdd(a, NumNeg(b))

NumMul(a, b) == Norm(a[1] * b[1], a[2] * b[2])

\* 1/0 = Infinity, 1/Infinity = 0, 1/NaN = NaN
NumInv(a) == Norm(a[2], a[1])

NumDiv(a, b) == NumMul(a, NumInv(b))

\* a < b as JavaScript evaluates it: false whenever an operand is NaN
NumLt(a, b) ==
    IF IsNaN(a) \/ IsNaN(b) THEN FALSE
    ELSE IF a[2] = 0 /\ b[2] = 0 THEN a[1] < b[1]
    ELSE IF a[2] = 0 THEN a[1] < 0
    ELSE IF b[2] = 0 THEN b[1] > 0
    ELSE a[1] * b[2] < b[1] * a[2]

NumLe(a, b) == NumLt(a, b) \/ (~IsNaN(a) /\ a = b)

NumAbs(a) == <<Abs(a[1]), a[2]>>

NumSign(a) == IF IsNaN(a) THEN NaN ELSE Int2Num(Sgn(a[1]))

\* Math.min / Math.max: NaN if either argument is NaN
MathMin(a, b) == IF IsNaN(a) \/ IsNaN(b) THEN NaN ELSE IF NumLt(a, b) THEN a ELSE b

MathMax(a, b) == IF IsNaN(a) \/ IsNaN(b) THEN NaN ELSE IF NumLt(a, b) THEN b ELSE a

\* a value in the closed unit interval (NaN and the infinities are not)
InUnit(a) == NumLe(Zero, a) /\ NumLe(a, One)

\* JavaScript truthiness of a number: 0 and NaN are falsy
Truthy(a) == ~IsNaN(a) /\ a # Zero

(***************************************************************************)
(* JavaScript objects are maps: functions whose domain is the set of       *)
(* property names that are present.                                        *)
(***************************************************************************)
EmptyMap == [k \in {} |-> 0]

Has(m, k) == k \in DOMAIN m

Put(m, k, v) == [x \in DOMAIN m \cup {k} |-> IF x = k THEN v ELSE m[x]]

\* Object.assign({}, a, b)
ObjectAssign(a, b) == [x \in DOMAIN a \cup DOMAIN b |-> IF x \in DOMAIN b THEN b[x] ELSE a[x]]

(***************************************************************************)
(* Bounds of the model.                                                    *)
(***************************************************************************)
\* frames the source delivers in one behaviour
MaxFrames == 2

\* start() calls that may be in flight at the same time
MaxCalls == 2

\* callbacks subscribed to the source at the same time
MaxListeners == 3

\* sinks of the adapter
NSinks == 2

\* calls of the calibration and tuning API in one behaviour
MaxApiCalls == 2

\* frames that arrive while the calibration and tuning API is called
MaxCalFrames == 1
MaxStageCalls == 2

Sinks == 1..NSinks

(***************************************************************************)
(* The schema (builder.js, _getDefaultSchema).                             *)
(***************************************************************************)
Two == <<2, 1>>
R052 == <<13, 25>>
MinLandmarks == 21

RefPoint(r, v) == [rawRotation |-> r, variance |-> v]

DefaultReference ==
    [center |-> RefPoint(Zero, <<1, 100>>),
     supinate |-> RefPoint(NumNeg(R052), <<1, 50>>),
     pronate |-> RefPoint(R052, <<1, 50>>)]

DefaultTuning ==
    [sensitivity |-> [left |-> One, right |-> One],
     reverse |-> FALSE,
     smoothing |-> [factor |-> <<3, 10>>, deadzone |-> <<1, 50>>]]

\* the config of the schema's smooth and flick-detect stages.  The modelled
\* schema sets factor and decay to 0.5 (the default schema has 0.3 and 0.85),
\* which keeps the numbers of a behaviour dyadic.
SmoothConfig == [factor |-> Half, deadzone |-> <<1, 50>>]

FlickConfig == [decay |-> Half, threshold |-> <<3, 20>>]

\* an output descriptor; component "" and range <<>> stand for an absent property
OutputConfig(src, comp, rng, inv) ==
    [source |-> src, component |-> comp, range |-> rng, invert |-> inv]

Range(inLo, inHi, outLo, outHi) == <<inLo, inHi, outLo, outHi>>

SignedRange == Range(NumNeg(One), One, Zero, One)
UnitRange == Range(Zero, One, Zero, One)

DefaultOutputs ==
    [n \in {"hand-x", "hand-y", "hand-theta", "hand-spread"} |->
        CASE n = "hand-x" -> OutputConfig("hand-center-calibrated", "x", SignedRange, FALSE)
          [] n = "hand-y" -> OutputConfig("hand-center-calibrated", "y", SignedRange, FALSE)
          [] n = "hand-theta" -> OutputConfig("hand-rotation-calibrated", "", SignedRange, FALSE)
          [] n = "hand-spread" -> OutputConfig("finger-spread", "", UnitRange, FALSE)]

\* Object.keys(schema.outputs), in insertion order
OutputNames == <<"hand-x", "hand-y", "hand-theta", "hand-spread">>

\* the pipeline built from the schema's pipeline list, by class name
processors == <<"ExtractProcessor", "CalibrateProcessor", "SmoothProcessor", "FlickDetectProcessor">>

\* names whose value is a vector {x, y}; every other value is a number
VectorNames == {"hand-center", "hand-center-calibrated"}

(***************************************************************************)
(* Processors.  A stage maps (context, state of its processor) to the      *)
(* returned context and the processor's new state.                         *)
(***************************************************************************)
SmoothInit == [x |-> Zero, y |-> Zero, theta |-> Zero, spread |-> Zero]

FlickInit == [lastTheta |-> Zero, velocity |-> Zero]

ProcInit == [smooth |-> SmoothInit, flick |-> FlickInit]

\* Object.keys(schema.derived): the entries that derive a value from the
\* frame's landmarks, those of a type that is not registered, and those whose
\* deriver throws (a landmark name the schema does not define, say)
Entries(raw) == DOMAIN raw.derived \cup raw.unknown \cup raw.erring

\* PV.computeDerived(landmarks, deriveDef, schema): "throws" when the deriver
\* throws, "null" for an unknown type, "value" otherwise
computeDerived(raw, name) ==
    IF name \in raw.erring THEN "throws"
    ELSE IF name \in raw.unknown THEN "null"
    ELSE "value"

\* the loop of ExtractProcessor.process has no try/catch: a deriver that
\* throws ends process() with its exception
ExtractThrows(ctx) ==
    /\ ctx.raw.n >= MinLandmarks
    /\ \E name \in Entries(ctx.raw) : computeDerived(ctx.raw, name) = "throws"

ExtractProcess(ctx, ps) ==
    IF ctx.raw.n < MinLandmarks
    THEN [ctx |-> ctx, ps |-> ps]
    ELSE [ctx |-> [ctx EXCEPT !.derived =
                      [name \in {e \in Entries(ctx.raw) : computeDerived(ctx.raw, e) = "value"} |->
                          ctx.raw.derived[name]]],
          ps |-> ps]

RawRotationOr(reference, point, dflt) ==
    IF Has(reference, point) /\ Truthy(reference[point].rawRotation)
    THEN reference[point].rawRotation
    ELSE dflt

\* (reference.pronate?.rawRotation || 0.52) - (reference.supinate?.rawRotation || -0.52)
ThetaRange(reference) ==
    NumSub(RawRotationOr(reference, "pronate", R052),
           RawRotationOr(reference, "supinate", NumNeg(R052)))

\* tuning.sensitivity || {left: 1, right: 1}
Sensitivity(tuning) ==
    IF Has(tuning, "sensitivity") THEN tuning["sensitivity"] ELSE [left |-> One, right |-> One]

\* normalized *= sensitivity.left or sensitivity.right
Sensitize(normalized, sens) ==
    IF NumLt(normalized, Zero) THEN NumMul(normalized, sens.left)
    ELSE NumMul(normalized, sens.right)

\* if (tuning.reverse) normalized = -normalized
Reverse(normalized, tuning) ==
    IF Has(tuning, "reverse") /\ tuning["reverse"] THEN NumNeg(normalized) ELSE normalized

\* the value stored as hand-rotation-calibrated
Normalize(raw, reference, tuning) ==
    Reverse(MathMax(NumNeg(One),
                    MathMin(One,
                            Sensitize(NumDiv(NumSub(raw, RawRotationOr(reference, "center", Zero)),
                                             NumDiv(ThetaRange(reference), Two)),
                                      Sensitivity(tuning)))),
            tuning)

\* calibrated = {...derived} with hand-rotation-calibrated
CalibrateRotation(derived, reference, tuning) ==
    IF Has(derived, "hand-rotation") /\ Has(reference, "center")
    THEN Put(derived, "hand-rotation-calibrated",
             Normalize(derived["hand-rotation"], reference, tuning))
    ELSE derived

\* ... and with hand-center-calibrated
CalibrateCenter(derived, calibrated) ==
    IF Has(derived, "hand-center")
    THEN Put(calibrated, "hand-center-calibrated",
             [x |-> NumMul(NumSub(derived["hand-center"].x, Half), Two),
              y |-> NumMul(NumSub(derived["hand-center"].y, Half), Two)])
    ELSE calibrated

CalibrateProcess(ctx, ps) ==
    [ctx |-> [ctx EXCEPT !.calibrated =
                 CalibrateCenter(ctx.derived,
                     CalibrateRotation(ctx.derived, ctx.calibration.reference,
                                       ctx.calibration.tuning))],
     ps |-> ps]

\* current moved past the target
ApproachOvershoot(current, delta, factor, deadzone) ==
    IF NumLt(NumAbs(delta), deadzone) THEN current
    ELSE NumAdd(current, NumMul(delta, NumAdd(One, factor)))

\* current moved by delta, unless delta is within the deadzone
Approach(current, delta, factor, deadzone) ==
    IF NumLt(NumAbs(delta), deadzone) THEN current
    ELSE NumAdd(current, NumMul(delta, NumSub(One, factor)))

smooth(current, target, factor, deadzone) ==
    Approach(current, NumSub(target, current), factor, deadzone)

\* calibrated['hand-center-calibrated'] || {x: 0, y: 0}
CenterOf(calibrated) ==
    IF Has(calibrated, "hand-center-calibrated")
    THEN calibrated["hand-center-calibrated"] ELSE [x |-> Zero, y |-> Zero]

\* m[k] ?? 0
OrZero(m, k) == IF Has(m, k) THEN m[k] ELSE Zero

\* the processor's _state after the frame
SmoothState(st, center, theta, spread, config) ==
    [x |-> smooth(st.x, center.x, config.factor, config.deadzone),
     y |-> smooth(st.y, center.y, config.factor, config.deadzone),
     theta |-> smooth(st.theta, theta, config.factor, config.deadzone),
     spread |-> smooth(st.spread, spread, config.factor, config.deadzone)]

\* a context whose smoothed map is the processor's _state object itself
HeldAliased(ctx, ps) == IF ctx.smoothed = EmptyMap THEN ctx ELSE [ctx EXCEPT !.smoothed = ps.smooth]

\* a context returned earlier, once the processors' state has become ps: its
\* smoothed map is a copy, {...this._state}, and its other sub-maps are
\* objects made for its frame, so that no later frame changes it
Held(ctx, ps) == ctx

\* what a holder of ctx finds once the processors' state has become ps:
\* "none" if ctx has no smoothed values, "changed" if ctx is no longer what
\* was returned, "same" if the smooth state has not moved, "kept" if it has
\* moved and ctx is what was returned
HeldStatus(ctx, ps) ==
    IF ctx.smoothed = EmptyMap THEN "none"
    ELSE IF Held(ctx, ps) # ctx THEN "changed"
    ELSE IF ctx.smoothed = ps.smooth THEN "same"
    ELSE "kept"

\* return {...context, smoothed: {...this._state}}
Smoothed(ctx, ps, st) == [ctx |-> [ctx EXCEPT !.smoothed = st], ps |-> [ps EXCEPT !.smooth = st]]

SmoothProcess(ctx, ps) ==
    Smoothed(ctx, ps,
             SmoothState(ps.smooth, CenterOf(ctx.calibrated),
                         OrZero(ctx.calibrated, "hand-rotation-calibrated"),
                         OrZero(ctx.derived, "finger-spread"), SmoothConfig))

\* the flick gesture and the processor's _state, from theta and the velocity
\* accumulated with this frame
Flick(ctx, ps, theta, acc) ==
    [ctx |-> [ctx EXCEPT !.gestures =
                 Put(ctx.gestures, "flick",
                     [amount |-> MathMin(One, NumDiv(NumAbs(acc), FlickConfig.threshold)),
                      direction |-> NumSign(acc),
                      velocity |-> acc])],
     ps |-> [ps EXCEPT !.flick = [lastTheta |-> theta, velocity |-> acc]]]

\* the accumulated velocity replaced by the velocity of this frame
AccumulateNoDecay(st, theta) == NumSub(theta, st.lastTheta)

\* this._state.velocity * decay + (theta - this._state.lastTheta)
Accumulate(st, theta) ==
    NumAdd(NumMul(st.velocity, FlickConfig.decay), NumSub(theta, st.lastTheta))

FlickAt(ctx, ps, theta) == Flick(ctx, ps, theta, Accumulate(ps.flick, theta))

FlickDetectProcess(ctx, ps) == FlickAt(ctx, ps, OrZero(ctx.smoothed, "theta"))

StageProcess(name, ctx, ps) ==
    CASE name = "ExtractProcessor" -> ExtractProcess(ctx, ps)
      [] name = "CalibrateProcessor" -> CalibrateProcess(ctx, ps)
      [] name = "SmoothProcessor" -> SmoothProcess(ctx, ps)
      [] name = "FlickDetectProcessor" -> FlickDetectProcess(ctx, ps)

\* processor.process(context) throws of itself
StageThrows(name, ctx) == name = "ExtractProcessor" /\ ExtractThrows(ctx)

(***************************************************************************)
(* ProcessorPipeline.process.  faults is the set of positions whose        *)
(* processor throws on this frame.  The result carries, next to the final  *)
(* context and processor states, the trace of the stages invoked: for each *)
(* one the context it received, whether it threw, and the context the      *)
(* pipeline held after it.                                                 *)
(***************************************************************************)
FreshContext(input, calibration) ==
    [raw |-> input, derived |-> EmptyMap, calibrated |-> EmptyMap, smoothed |-> EmptyMap,
     gestures |-> EmptyMap, outputs |-> EmptyMap, calibration |-> calibration]

RECURSIVE PipelineLoop(_, _, _, _, _)

\* stage i returned r: context = processor.process(context), and on to the next
Returned(i, ctx, r, faults, trace) ==
    PipelineLoop(i + 1, r.ctx, r.ps, faults,
                 Append(trace, [name |-> processors[i], threw |-> FALSE, in |-> ctx, out |-> r.ctx]))

\* the loop without its try/catch: the first throw ends the frame's pipeline
PipelineLoopUncaught(i, ctx, ps, faults, trace) ==
    LET hit == {k \in faults : k >= i /\ k <= Len(processors)}
    IN [ctx |-> ctx, ps |-> ps,
        trace |-> IF hit = {} THEN trace
                  ELSE Append(trace, [name |-> processors[i], threw |-> TRUE,
                                      in |-> ctx, out |-> ctx])]

PipelineLoop(i, ctx, ps, faults, trace) ==
    IF i > Len(processors) THEN [ctx |-> ctx, ps |-> ps, trace |-> trace]
    ELSE IF i \in faults \/ StageThrows(processors[i], ctx)
         THEN PipelineLoop(i + 1, ctx, ps, faults,
                  Append(trace, [name |-> processors[i], threw |-> TRUE, in |-> ctx, out |-> ctx]))
         ELSE Returned(i, ctx, StageProcess(processors[i], ctx, ps), faults, trace)

PipelineProcess(input, calibration, ps, faults) ==
    PipelineLoop(1, FreshContext(input, calibration), ps, faults, <<>>)

(***************************************************************************)
(* State.                                                                  *)
(***************************************************************************)
VARIABLES
    outputs,      \* schema.outputs
    schemaCal,    \* the object schema.calibration: reference (an object id) and tuning
    refs,         \* the reference objects: "SR" is the schema's, "AR" one made for the adapter
    calAlias,     \* adapter.calibration is the very object schema.calibration
    ownCal,       \* adapter.calibration when it is an object of its own
    apiCalls,     \* number of calls made to the calibration and tuning API
    lastCall,     \* the last call of that API: its name, argument and returned value
    builder,      \* the PaddleVisionBuilder, the schema registry and what build() made
    running,      \* adapter._running
    unsubscribe,  \* adapter._unsubscribe: id of the callback it removes, 0 for null
    stats,        \* adapter._stats
    procState,    \* _state of the Smooth and FlickDetect processors
    calls,        \* the start() calls in flight, each with the await it is suspended at
    srcRunning,   \* source._running
    srcUnsub,     \* source._unsubscribe is set
    listeners,    \* source._listeners
    released,     \* the unsubscribe functions called so far: subscription and callback of each
    wrapperRunning, \* running of the legacy PaddleVision wrapper around the adapter
    recorder,     \* the Recorder: its recording, playing, playbackIndex and pending timeouts
    playback,     \* what the playback callback has been given since the last play()
    polling,      \* GamepadAdapter.polling
    scheduled,    \* _poll callbacks requested for the next animation frame
    polls,        \* polls recorded during the last animation frame
    avPresent,    \* window.ASCIIVision exists
    avRunning,    \* window.ASCIIVision.isRunning()
    avSubs,       \* 'landmarks' subscriptions of the source held by ASCIIVision
    connected,    \* sink._connected
    emitted,      \* number of frames the source has emitted
    stopped,      \* stop() has returned and start() has not been called since
    lastOp,       \* the operation of the last step
    lastFrame,    \* the frame of the last source emit
    lastCtx,      \* context of the last frame an adapter callback pipelined
    held,         \* what the last emit did to the context returned for the frame before
    emitLog,      \* sink.emit calls made during the last source emit, in order
    stageLog,     \* processor invocations of the last pipelined frame
    invoked,      \* ids of the callbacks called during the last source emit, in order
    caught,       \* exceptions caught by the source during the last emit
    stageFaults,  \* pipeline positions whose processor was made to throw on the last frame
    sinkFaults,   \* sinks whose emit threw on the last frame
    events,       \* the standardized events the last MIDI message or gamepad poll produced
    prevButtons,  \* GamepadAdapter.prevButtons
    prevAxes      \* GamepadAdapter.prevAxes

calVars == <<outputs, schemaCal, refs, calAlias, ownCal, apiCalls, lastCall>>
adapterVars == <<running, unsubscribe, stats, procState, calls>>
sourceVars == <<srcRunning, srcUnsub, listeners, avPresent, avRunning, avSubs>>
histVars == <<lastFrame, lastCtx, held, emitLog, stageLog, invoked, caught, stageFaults, sinkFaults>>
deviceVars == <<events, prevButtons, prevAxes>>
handleVars == <<released>>
wrapperVars == <<wrapperRunning>>
recorderVars == <<recorder, playback>>
pollVars == <<polling, scheduled, polls>>
engineVars == <<recorderVars, pollVars>>
vars == <<engineVars, wrapperVars, handleVars, deviceVars, builder, calVars, adapterVars, sourceVars, connected, emitted, stopped, lastOp, histVars>>

\* the MIDI and gamepad adapters as constructed: nothing polled yet
DevicesIdle == events = <<>> /\ prevButtons = [k \in {} |-> FALSE] /\ prevAxes = [k \in {} |-> 0]

\* new Recorder() holding a recording of n events: playing false,
\* playbackIndex 0 and no timeout pending for any entry
NewRecorder(n) == [events |-> n, playing |-> FALSE, playbackIndex |-> 0, timers |-> [k \in 1..n |-> 0]]

\* nothing played back yet
NoPlayback == [delivered |-> <<>>, plays |-> 0, stopped |-> FALSE]

\* the engine's recorder without a recording and its gamepad adapter as
\* constructed: this.polling = false
EngineIdle ==
    /\ recorder = NewRecorder(0)
    /\ playback = NoPlayback
    /\ polling = FALSE
    /\ scheduled = 0
    /\ polls = 0

\* no unsubscribe function has been called; this.running = false of the
\* wrapper's constructor
NoneReleased == released = {} /\ wrapperRunning = FALSE

(***************************************************************************)
(* Output resolution and fan-out (PaddleVisionAdapter).                    *)
(***************************************************************************)
\* val[component] / val of a value found under a name.  A result that is not
\* a number (undefined, or a vector taken whole) becomes NaN in the
\* arithmetic and the Math.min/Math.max that always follow.
Select(name, val, component) ==
    IF name \in VectorNames
    THEN (IF component \in {"x", "y"} THEN val[component] ELSE NaN)
    ELSE (IF component = "" THEN val ELSE NaN)

\* _resolveOutput looking the name up in derived first, smoothed last
ResolveDerivedFirst(context, config) ==
    IF Has(context.derived, config.source)
    THEN Select(config.source, context.derived[config.source], config.component)
    ELSE IF Has(context.calibrated, config.source)
    THEN Select(config.source, context.calibrated[config.source], config.component)
    ELSE IF Has(context.smoothed, config.source)
    THEN Select(config.source, context.smoothed[config.source], config.component)
    ELSE Zero

_resolveOutput(context, config) ==
    IF Has(context.smoothed, config.source)
    THEN Select(config.source, context.smoothed[config.source], config.component)
    ELSE IF Has(context.calibrated, config.source)
    THEN Select(config.source, context.calibrated[config.source], config.component)
    ELSE IF Has(context.derived, config.source)
    THEN Select(config.source, context.derived[config.source], config.component)
    ELSE Zero

Clamp01(v) == MathMax(Zero, MathMin(One, v))

\* outMin + t * (outMax - outMin) for t = (value - inMin) / (inMax - inMin)
Rescale(t, outMin, outMax) == NumAdd(outMin, NumMul(t, NumSub(outMax, outMin)))

\* if (config.range) ...
ApplyRange(value, range) ==
    IF range # <<>>
    THEN Rescale(NumDiv(NumSub(value, range[1]), NumSub(range[2], range[1])), range[3], range[4])
    ELSE value

\* if (config.invert) value = 1 - value
ApplyInvert(value, invert) == IF invert THEN NumSub(One, value) ELSE value

\* the value of an output with the inversion applied before the range
OutputValueInvertFirst(context, config) ==
    Clamp01(ApplyRange(ApplyInvert(_resolveOutput(context, config), config.invert), config.range))

OutputValue(context, config) ==
    Clamp01(ApplyInvert(ApplyRange(_resolveOutput(context, config), config.range), config.invert))

EmitCall(sink, name, value) == [sink |-> sink, name |-> name, value |-> value]

\* the values of the schema's outputs, in the order of OutputNames
OutputValues(context, outs) ==
    [j \in 1..Len(OutputNames) |-> OutputValue(context, outs[OutputNames[j]])]

\* the emit calls of the output loop, output by output and sink by sink
OutputCalls(values) ==
    [k \in 1..(Len(OutputNames) * NSinks) |->
        LET j == ((k - 1) \div NSinks) + 1
        IN EmitCall(((k - 1) % NSinks) + 1, OutputNames[j], values[j])]

FlickThreshold == <<1, 10>>

\* the flick block without the test of the amount
FlickCallsAlways(context) ==
    IF Has(context.gestures, "flick")
    THEN [k \in 1..(2 * NSinks) |->
            LET flick == context.gestures["flick"]
                sink == ((k - 1) \div 2) + 1
            IN IF (k - 1) % 2 = 0
               THEN EmitCall(sink, "flick-amount", flick.amount)
               ELSE EmitCall(sink, "flick-direction", NumDiv(NumAdd(flick.direction, One), Two))]
    ELSE <<>>

\* the emit calls of the flick block, sink by sink
FlickCalls(context) ==
    IF Has(context.gestures, "flick") /\ NumLt(FlickThreshold, context.gestures["flick"].amount)
    THEN [k \in 1..(2 * NSinks) |->
            LET flick == context.gestures["flick"]
                sink == ((k - 1) \div 2) + 1
            IN IF (k - 1) % 2 = 0
               THEN EmitCall(sink, "flick-amount", flick.amount)
               ELSE EmitCall(sink, "flick-direction", NumDiv(NumAdd(flick.direction, One), Two))]
    ELSE <<>>

\* index of the first call made on a sink whose emit throws, 0 if none
FirstThrow(plan, throwers) ==
    IF \E k \in 1..Len(plan) : plan[k].sink \in throwers
    THEN CHOOSE k \in 1..Len(plan) :
            /\ plan[k].sink \in throwers
            /\ \A j \in 1..(k - 1) : plan[j].sink \notin throwers
    ELSE 0

\* the outputs whose loop body was entered before emit call k threw (all of
\* them if none threw, or if a call of the flick block did)
Reached(k) ==
    IF k = 0 \/ k > Len(OutputNames) * NSinks THEN Len(OutputNames)
    ELSE ((k - 1) \div NSinks) + 1

\* context.outputs with the values of the first n outputs
Stored(values, n) ==
    [name \in {OutputNames[j] : j \in 1..n} |->
        values[CHOOSE j \in 1..n : OutputNames[j] = name]]

\* the emit calls of plan are made up to the first that throws, the k-th
Deliver(context, values, plan, k) ==
    [ctx |-> [context EXCEPT !.outputs = Stored(values, Reached(k))],
     calls |-> IF k = 0 THEN plan ELSE SubSeq(plan, 1, k),
     threw |-> k # 0]

FanOut(context, values, plan, throwers) ==
    Deliver(context, values, plan, FirstThrow(plan, throwers))

EmitValues(context, values, throwers) ==
    FanOut(context, values, OutputCalls(values) \o FlickCalls(context), throwers)

\* _emitOutputs: no call is wrapped in a try, so the first throwing emit ends it
_emitOutputs(context, outs, throwers) ==
    EmitValues(context, OutputValues(context, outs), throwers)

\* the calibration object as the processors read it on this frame
CalView(cal, heap) ==
    [reference |-> IF Has(cal, "reference") THEN heap[cal["reference"]] ELSE EmptyMap,
     tuning |-> IF Has(cal, "tuning") THEN cal["tuning"] ELSE EmptyMap]

\* this._stats.framesProcessed++; this._stats.lastTimestamp = data.timestamp
Counted(st, data) ==
    [st EXCEPT !.framesProcessed = @ + 1, !.lastTimestamp = data.timestamp]

\* the adapter after _emitOutputs ended as e on the pipeline's result r
Emitted(w, data, r, e) ==
    [w EXCEPT !.stats = [Counted(w.stats, data) EXCEPT !.detectedFrames = @ + 1],
              !.ps = r.ps,
              !.ctx = e.ctx,
              !.trace = r.trace,
              !.emits = w.emits \o e.calls,
              !.threw = e.threw]

\* this._emitOutputs(context) on the pipeline's result r
EmitResult(w, data, r, throwers) ==
    Emitted(w, data, r, _emitOutputs(r.ctx, w.outputs, throwers))

\* _processFrame without its landmark-count guard
ProcessFrameUnguarded(w, data, faults, throwers) ==
    EmitResult(w, data, PipelineProcess(data, w.calibration, w.ps, faults), throwers)

\* _processFrame on the adapter state w
_processFrame(w, data, faults, throwers) ==
    IF data.n < MinLandmarks
    THEN [w EXCEPT !.stats = Counted(w.stats, data), !.threw = FALSE]
    ELSE EmitResult(w, data, PipelineProcess(data, w.calibration, w.ps, faults), throwers)

(***************************************************************************)
(* SourceAdapter._emit: the listeners are called in list order, each in a  *)
(* try of its own.                                                         *)
(***************************************************************************)
CallListener(l, w, data, faults, throwers) ==
    CASE l.kind = "adapter" -> _processFrame(w, data, faults, throwers)
      [] l.kind \in {"ok", "shared", "unsubscribes"} -> [w EXCEPT !.threw = FALSE]
      [] l.kind = "throws" -> [w EXCEPT !.threw = TRUE]

\* listener id has been called and left w: what the catch of _emit records
Caught(w, id) ==
    [w EXCEPT !.invoked = Append(@, id), !.caught = @ + (IF w.threw THEN 1 ELSE 0)]

RECURSIVE EmitUncaught(_, _, _, _, _, _)

\* listener i has been called and left w; without a catch a throw ends the loop
Uncaught(i, ls, w, data, faults, throwers) ==
    IF w.threw THEN [w EXCEPT !.invoked = Append(@, ls[i].id)]
    ELSE EmitUncaught(i + 1, ls, [w EXCEPT !.invoked = Append(@, ls[i].id)],
                      data, faults, throwers)

\* _emit without its try/catch
EmitUncaught(i, ls, w, data, faults, throwers) ==
    IF i > Len(ls) THEN w
    ELSE Uncaught(i, ls, CallListener(ls[i], w, data, faults, throwers), data, faults, throwers)

\* this._listeners.splice(idx, 1) for the subscription id
Without(ls, id) == SelectSeq(ls, LAMBDA l : l.id # id)

\* this._listeners once callback l has run: a callback of kind "unsubscribes"
\* calls the unsubscribe function onData returned for it
After(l, ls) == IF l.kind = "unsubscribes" THEN Without(ls, l.id) ELSE ls

\* for (const listener of this._listeners): the array iterator reads the
\* array as it is at each step, by index
RECURSIVE _emit(_, _, _, _, _, _)
_emit(i, ls, w, data, faults, throwers) ==
    IF i > Len(ls) THEN w
    ELSE _emit(i + 1, After(ls[i], ls),
               Caught(CallListener(ls[i], w, data, faults, throwers), ls[i].id),
               data, faults, throwers)

\* this._listeners after the loop of _emit
RECURSIVE Dispatched(_, _)
Dispatched(i, ls) == IF i > Len(ls) THEN ls ELSE Dispatched(i + 1, After(ls[i], ls))

(***************************************************************************)
(* Inputs.                                                                 *)
(***************************************************************************)
Vec(x, y) == [x |-> x, y |-> y]

\* what the derivation library computes from the landmarks of a frame
DerivedOf(center, rotation, spread) ==
    [k \in {"hand-center", "hand-rotation", "finger-spread"} |->
        CASE k = "hand-center" -> center
          [] k = "hand-rotation" -> rotation
          [] k = "finger-spread" -> spread]

\* a frame: its number of landmarks (0 also stands for no landmarks array),
\* the values its landmarks derive to under the entries of schema.derived,
\* and the entries of schema.derived that derive none
SchemaFrame(n, d, unknown, erring) ==
    [n |-> n, derived |-> d, unknown |-> unknown, erring |-> erring, timestamp |-> 0]

\* a frame under a schema whose derived entries all yield a value
Frame(n, d) == SchemaFrame(n, d, {}, {})

NoFrame == Frame(0, EmptyMap)

Frames ==
    {Frame(0, EmptyMap),
     Frame(20, EmptyMap),
     Frame(21, DerivedOf(Vec(Half, Half), Zero, Zero)),
     Frame(21, DerivedOf(Vec(One, Zero), <<13, 50>>, Two)),
     Frame(21, DerivedOf(Vec(Half, Half), <<13, 200>>, Zero)),
     Frame(22, DerivedOf(Vec(Zero, One), <<-13, 25>>, <<-3, 1>>)),
     SchemaFrame(22, DerivedOf(Vec(Half, Half), Zero, Zero), {"wrist-depth"}, {}),
     SchemaFrame(22, DerivedOf(Vec(Half, Half), Zero, Zero), {}, {"wrist-depth"})}

\* schema.outputs as configured at build time (configureOutput)
OutputVariants ==
    {DefaultOutputs,
     [DefaultOutputs EXCEPT !["hand-theta"] =
         OutputConfig("hand-rotation-calibrated", "", SignedRange, TRUE)],
     [DefaultOutputs EXCEPT !["hand-spread"] =
         OutputConfig("finger-spread", "", Range(Zero, Zero, Zero, One), FALSE)]}

OtherReference ==
    [center |-> RefPoint(<<1, 10>>, <<1, 100>>),
     supinate |-> RefPoint(<<-1, 2>>, <<1, 50>>),
     pronate |-> RefPoint(Half, <<1, 50>>)]

OtherTuning == [sensitivity |-> [left |-> Two, right |-> One], reverse |-> TRUE]

\* options.calibration of the constructor: absent, an object with its own
\* reference object and tuning, or a saved profile that holds a tuning only
SuppliedCalibrations ==
    {EmptyMap, [reference |-> OtherReference, tuning |-> OtherTuning], [tuning |-> OtherTuning]}

\* profiles given to setCalibration
Profiles == {EmptyMap, [tuning |-> OtherTuning], [reference |-> OtherReference]}

\* JSON texts given to importCalibration: malformed, or the text of a profile
JsonTexts == {[valid |-> FALSE, value |-> EmptyMap]} \cup {[valid |-> TRUE, value |-> p] : p \in Profiles}

\* partial tunings given to setTuning
Partials == {[reverse |-> TRUE], [sensitivity |-> [left |-> Half, right |-> Two]]}

Points == {"center", "supinate", "pronate"}

CaptureVariance == <<1, 50>>

ListenerKinds == {"ok", "throws"}

\* a sub-map of a context holding the names the schema's outputs read
Named(center, rotation, spread) ==
    [k \in {"hand-center-calibrated", "hand-rotation-calibrated", "finger-spread"} |->
        CASE k = "hand-center-calibrated" -> center
          [] k = "hand-rotation-calibrated" -> rotation
          [] k = "finger-spread" -> spread]

\* the smoothed, calibrated and derived sub-maps of the contexts passed to
\* _emitOutputs: as the schema's processors leave them, and as processors
\* registered by the application may
SmoothedMaps == {EmptyMap, SmoothInit, Named(Vec(Half, Zero), One, Half)}

CalibratedMaps ==
    {EmptyMap, Named(Vec(NumNeg(One), One), NumNeg(One), One),
     [k \in {"hand-rotation-calibrated"} |-> Two]}

DerivedMaps ==
    {EmptyMap, Named(Vec(Zero, Zero), Zero, Zero),
     [k \in {"finger-spread"} |-> <<1, 4>>]}

\* context.gestures: without a flick, or with the flick of an accumulated velocity
FlickGestures ==
    {EmptyMap} \cup
    {[k \in {"flick"} |->
        [amount |-> MathMin(One, NumDiv(NumAbs(v), FlickConfig.threshold)),
         direction |-> NumSign(v), velocity |-> v]] : v \in {Zero, <<3, 200>>, <<-1, 5>>}}

Contexts ==
    {[raw |-> NoFrame, derived |-> d, calibrated |-> c, smoothed |-> sm, gestures |-> g,
      outputs |-> EmptyMap, calibration |-> [reference |-> EmptyMap, tuning |-> EmptyMap]] :
        sm \in SmoothedMaps, c \in CalibratedMaps, d \in DerivedMaps, g \in FlickGestures}

(***************************************************************************)
(* Initial state: the adapter as its constructor leaves it.                *)
(***************************************************************************)
Idle == [at |-> "idle", i |-> 0, ok |-> FALSE]

\* a call of the calibration API, its argument and what it returned
Call(op, arg, result) == [op |-> op, arg |-> arg, result |-> result]

NoCall == Call("", "", "")

Undefined == "undefined"

Null == "null"

NoCtx == FreshContext(NoFrame, [reference |-> EmptyMap, tuning |-> EmptyMap])

HistReset ==
    /\ lastFrame' = NoFrame
    /\ lastCtx' = NoCtx
    /\ held' = "none"
    /\ emitLog' = <<>>
    /\ stageLog' = <<>>
    /\ invoked' = <<>>
    /\ caught' = 0
    /\ stageFaults' = {}
    /\ sinkFaults' = {}

\* new PaddleVisionAdapter({schema, source, sinks, calibration: supplied})
Construct(outs, supplied) ==
    /\ outputs = outs
    /\ schemaCal = [reference |-> "SR", tuning |-> DefaultTuning]
    /\ IF supplied = EmptyMap
       THEN /\ calAlias = TRUE
            /\ ownCal = EmptyMap
            /\ refs = [r \in {"SR", "AR"} |-> IF r = "SR" THEN DefaultReference ELSE EmptyMap]
       ELSE /\ calAlias = FALSE
            /\ ownCal = [k \in DOMAIN supplied |-> IF k = "reference" THEN "AR" ELSE supplied[k]]
            /\ refs = [r \in {"SR", "AR"} |->
                         IF r = "SR" THEN DefaultReference
                         ELSE IF Has(supplied, "reference") THEN supplied["reference"]
                         ELSE EmptyMap]
    /\ apiCalls = 0
    /\ lastCall = NoCall
    /\ stats = [framesProcessed |-> 0, lastTimestamp |-> 0, detectedFrames |-> 0]
    /\ procState = ProcInit
    /\ calls = [c \in 1..MaxCalls |-> Idle]
    /\ emitted = 0
    /\ stopped = FALSE
    /\ lastFrame = NoFrame
    /\ lastCtx = NoCtx
    /\ held = "none"
    /\ emitLog = <<>>
    /\ stageLog = <<>>
    /\ invoked = <<>>
    /\ caught = 0
    /\ stageFaults = {}
    /\ sinkFaults = {}

\* the adapter and a new ASCIIVisionSource before any start()
NotStarted ==
    /\ running = FALSE
    /\ unsubscribe = 0
    /\ srcRunning = FALSE
    /\ srcUnsub = FALSE
    /\ listeners = <<>>
    /\ avRunning = FALSE
    /\ avSubs = 0
    /\ connected = [s \in Sinks |-> FALSE]
    /\ lastOp = "new"

\* the adapter once a single start() has completed with ASCIIVision loaded and
\* every sink connected; before are the callbacks other consumers had
\* subscribed to the source
Started(before) ==
    /\ running = TRUE
    /\ unsubscribe = Len(before) + 1
    /\ srcRunning = TRUE
    /\ srcUnsub = TRUE
    /\ listeners = Append(before, [id |-> Len(before) + 1, kind |-> "adapter"])
    /\ avPresent = TRUE
    /\ avRunning = TRUE
    /\ avSubs = 1
    /\ connected = [s \in Sinks |-> TRUE]
    /\ lastOp = "start-done"

\* schema.pipeline of the schema file registered as hand-basic: processor names
PipelineLists ==
    {<<"extract", "calibrate", "smooth", "flick-detect">>,
     <<"extract", "unknown", "smooth">>,
     <<"smooth", "constructor", "extract">>}

\* the registries of builder.js; SCHEMAS is filled when a schema file has loaded
SOURCES == {"asciivision", "mock"}

SINKS == {"hub", "events", "console"}

SchemaIds == {"hand-basic"}

\* new PaddleVisionBuilder() while the ids of schemas are registered; "" stands
\* for null and undefined, threw for the last call having thrown, and adapter
\* for the options of the adapter build() returned
NewBuilder(schemas, pipeline) ==
    [SCHEMAS |-> schemas, pipeline |-> pipeline, schema |-> "", source |-> "", sinks |-> <<>>,
     threw |-> FALSE,
     adapter |-> [schema |-> "", source |-> "", sinks |-> <<>>, processors |-> <<>>]]

\* the builder that made the adapter of the other specifications:
\* createPaddleVision().build()
Built ==
    [NewBuilder({}, <<>>) EXCEPT !.adapter =
        [schema |-> "default", source |-> "asciivision", sinks |-> <<"events">>,
         processors |-> processors]]

\* a page where ASCIIVision is loaded or is not
Init ==
    /\ builder = Built
    /\ DevicesIdle
    /\ NoneReleased
    /\ EngineIdle
    /\ Construct(DefaultOutputs, EmptyMap)
    /\ NotStarted
    /\ avPresent \in BOOLEAN

(***************************************************************************)
(* adapter.start(), an async function: the call runs to its first await,   *)
(* and each later step resumes one suspended call.                         *)
(***************************************************************************)
InFlight == Cardinality({c \in 1..MaxCalls : calls[c].at # "idle"})

FreeSlot == CHOOSE c \in 1..MaxCalls : calls[c].at = "idle" /\ \A d \in 1..(c - 1) : calls[d].at # "idle"

\* the ids that name a subscription or an unsubscribe function already called
UsedIds == {listeners[k].id : k \in 1..Len(listeners)} \cup {h.id : h \in released}

FreshId == CHOOSE n \in 1..(MaxListeners + 1) : n \notin UsedIds /\ \A m \in 1..(n - 1) : m \in UsedIds

\* how far a call of start() has come
Progress(pc) ==
    CASE pc.at = "idle" -> 0
      [] pc.at = "connect" -> pc.i
      [] pc.at = "init" -> NSinks + 1
      [] pc.at = "srcret" -> NSinks + 2 + (IF pc.ok THEN 1 ELSE 0)

\* call c is suspended at pc.  The calls in flight are interchangeable, so the
\* list is kept ordered by progress
Suspend(c, pc) == SortSeq([calls EXCEPT ![c] = pc], LAMBDA a, b : Progress(a) > Progress(b))

\* what connect() of sink j can report: the last sink is an EventsSink, which
\* connects if Terrain.Events is there; the others are ConsoleSinks, which
\* always connect
ConnectResults(j) == IF j < NSinks THEN {TRUE} ELSE BOOLEAN

\* await sink.connect() for sink j: connect() runs, then the call is suspended
Connect(c, j) ==
    /\ \E ok \in ConnectResults(j) : connected' = [connected EXCEPT ![j] = ok]
    /\ calls' = Suspend(c, [at |-> "connect", i |-> j, ok |-> FALSE])
    /\ UNCHANGED <<srcRunning, srcUnsub, avRunning, avSubs>>

\* ASCIIVisionSource.start() up to its await of ASCIIVision.init, or to its return
SourceStart(c) ==
    /\ UNCHANGED connected
    /\ IF srcRunning
       THEN /\ calls' = Suspend(c, [at |-> "srcret", i |-> 0, ok |-> TRUE])
            /\ UNCHANGED <<srcRunning, srcUnsub, avRunning, avSubs>>
       ELSE IF ~avPresent
       THEN /\ calls' = Suspend(c, [at |-> "srcret", i |-> 0, ok |-> FALSE])
            /\ UNCHANGED <<srcRunning, srcUnsub, avRunning, avSubs>>
       ELSE IF ~avRunning
       THEN /\ calls' = Suspend(c, [at |-> "init", i |-> 0, ok |-> FALSE])
            /\ UNCHANGED <<srcRunning, srcUnsub, avRunning, avSubs>>
       ELSE /\ calls' = Suspend(c, [at |-> "srcret", i |-> 0, ok |-> TRUE])
            /\ avSubs' = avSubs + 1
            /\ srcUnsub' = TRUE
            /\ srcRunning' = TRUE
            /\ UNCHANGED avRunning

\* adapter.start() up to its first await
AdapterStart ==
    /\ \E c \in 1..MaxCalls : calls[c].at = "idle"
    /\ Len(listeners) + InFlight < MaxListeners
    /\ stopped' = FALSE
    /\ IF running
       THEN /\ lastOp' = "start-noop"
            /\ UNCHANGED <<calls, connected, srcRunning, srcUnsub, avRunning, avSubs>>
       ELSE /\ lastOp' = "start"
            /\ IF NSinks = 0 THEN SourceStart(FreeSlot) ELSE Connect(FreeSlot, 1)
    /\ HistReset
    /\ UNCHANGED <<handleVars, deviceVars, builder, calVars, running, unsubscribe, stats, procState, listeners, avPresent, emitted>>

\* a call of adapter.start()
CallStart ==
    /\ AdapterStart
    /\ UNCHANGED <<engineVars, wrapperVars>>

\* start() of the wrapper: this._adapter.start(), whose promise is not
\* awaited, then this.running = this._adapter.isRunning()
WrapperStart ==
    /\ AdapterStart
    /\ wrapperRunning' = running'
    /\ UNCHANGED engineVars

\* start() resumes after await sink.connect()
ResumeConnect(c) ==
    /\ calls[c].at = "connect"
    /\ IF calls[c].i < NSinks THEN Connect(c, calls[c].i + 1) ELSE SourceStart(c)
    /\ lastOp' = "connect"
    /\ HistReset
    /\ UNCHANGED <<engineVars, wrapperVars, handleVars, deviceVars, builder, calVars, running, unsubscribe, stats, procState, listeners, avPresent,
                   emitted, stopped>>

\* ASCIIVision.init settles: source.start() resumes and returns
InitSettle(c, ok) ==
    /\ calls[c].at = "init"
    /\ calls' = Suspend(c, [at |-> "srcret", i |-> 0, ok |-> ok])
    /\ IF ok
       THEN /\ avRunning' = TRUE
            /\ avSubs' = avSubs + 1
            /\ srcUnsub' = TRUE
            /\ srcRunning' = TRUE
       ELSE UNCHANGED <<avRunning, avSubs, srcUnsub, srcRunning>>
    /\ lastOp' = "init"
    /\ HistReset
    /\ UNCHANGED <<engineVars, wrapperVars, handleVars, deviceVars, builder, calVars, running, unsubscribe, stats, procState, listeners, avPresent,
                   connected, emitted, stopped>>

\* started is true: subscribe and set _running
Subscribe(id) ==
    /\ listeners' = Append(listeners, [id |-> id, kind |-> "adapter"])
    /\ unsubscribe' = id
    /\ running' = TRUE

\* start() subscribing whatever source.start() reported
StartFinishUnchecked(c) ==
    /\ lastOp' = IF calls[c].ok THEN "start-done" ELSE "start-failed"
    /\ Subscribe(FreshId)

\* start() resumes after await source.start()
StartFinish(c) ==
    IF ~calls[c].ok
    THEN /\ lastOp' = "start-failed"
         /\ UNCHANGED <<listeners, unsubscribe, running>>
    ELSE /\ lastOp' = "start-done"
         /\ Subscribe(FreshId)

ResumeStart(c) ==
    /\ calls[c].at = "srcret"
    /\ calls' = Suspend(c, Idle)
    /\ StartFinish(c)
    /\ HistReset
    /\ UNCHANGED <<engineVars, wrapperVars, handleVars, deviceVars, builder, calVars, stats, procState, srcRunning, srcUnsub, avPresent, avRunning,
                   avSubs, connected, emitted, stopped>>

(***************************************************************************)
(* adapter.stop() and adapter.destroy().                                   *)
(***************************************************************************)
stop ==
    IF ~running
    THEN UNCHANGED <<running, unsubscribe, listeners, srcRunning, srcUnsub, avSubs, connected>>
    ELSE /\ listeners' = IF unsubscribe # 0 THEN Without(listeners, unsubscribe) ELSE listeners
         /\ unsubscribe' = 0
         /\ avSubs' = IF srcUnsub THEN avSubs - 1 ELSE avSubs
         /\ srcUnsub' = FALSE
         /\ srcRunning' = FALSE
         /\ connected' = [s \in Sinks |-> FALSE]
         /\ running' = FALSE

AdapterStop ==
    /\ stop
    /\ stopped' = TRUE
    /\ lastOp' = IF running THEN "stop" ELSE "stop-noop"
    /\ HistReset
    /\ UNCHANGED <<handleVars, deviceVars, builder, calVars, stats, procState, calls, avPresent, avRunning, emitted>>

\* a call of adapter.stop()
Stop ==
    /\ AdapterStop
    /\ UNCHANGED <<engineVars, wrapperVars>>

\* stop() of the wrapper: this._adapter.stop(); this.running = false
WrapperStop ==
    /\ AdapterStop
    /\ wrapperRunning' = FALSE
    /\ UNCHANGED engineVars

\* destroy() that stops the adapter and leaves the pipeline as it is
DestroyNoReset ==
    /\ stop
    /\ stopped' = TRUE
    /\ lastOp' = "destroy"
    /\ HistReset
    /\ UNCHANGED <<engineVars, wrapperVars, handleVars, deviceVars, builder, calVars, stats, procState, calls, avPresent, avRunning, emitted>>

\* destroy(): this.stop(); this.pipeline.reset()
AdapterDestroy ==
    /\ stop
    /\ procState' = ProcInit
    /\ stopped' = TRUE
    /\ lastOp' = "destroy"
    /\ HistReset
    /\ UNCHANGED <<handleVars, deviceVars, builder, calVars, stats, calls, avPresent, avRunning, emitted>>

\* a call of adapter.destroy()
Destroy ==
    /\ AdapterDestroy
    /\ UNCHANGED <<engineVars, wrapperVars>>

\* destroy() of the wrapper: this._adapter.destroy(); this.running = false
WrapperDestroy ==
    /\ AdapterDestroy
    /\ wrapperRunning' = FALSE
    /\ UNCHANGED engineVars

(***************************************************************************)
(* The source emits a frame.  ASCIIVision calls the 'landmarks' handler of *)
(* a live subscription, which calls _emit.  A frame arrives in a task of   *)
(* its own, so no start() is between the return of source.start() and its  *)
(* own resumption (a microtask).  faults: the pipeline positions that      *)
(* throw on this frame; throwers: the sinks whose emit throws.             *)
(***************************************************************************)
Cal == IF calAlias THEN schemaCal ELSE ownCal

\* the frame as the source's handler passes it on
Stamped(frame) == [frame EXCEPT !.timestamp = emitted + 1]

\* the adapter's fields and the record of the emit, before any callback is called
Before ==
    [stats |-> stats, ps |-> procState, calibration |-> CalView(Cal, refs),
     outputs |-> outputs, ctx |-> NoCtx, trace |-> <<>>, emits |-> <<>>,
     invoked |-> <<>>, caught |-> 0, threw |-> FALSE]

SourceEmit(frame, faults, throwers) ==
    /\ avSubs > 0
    /\ emitted < MaxFrames
    /\ \A c \in 1..MaxCalls : calls[c].at # "srcret"
    /\ \E w \in {_emit(1, listeners, Before, Stamped(frame), faults, throwers)} :
          /\ stats' = w.stats
          /\ procState' = w.ps
          /\ lastCtx' = w.ctx
          /\ held' = HeldStatus(lastCtx, w.ps)
          /\ stageLog' = w.trace
          /\ emitLog' = w.emits
          /\ invoked' = w.invoked
          /\ caught' = w.caught
    /\ lastFrame' = Stamped(frame)
    /\ stageFaults' = faults
    /\ sinkFaults' = throwers
    /\ emitted' = emitted + 1
    /\ lastOp' = "emit"
    /\ listeners' = Dispatched(1, listeners)
    /\ UNCHANGED <<engineVars, wrapperVars, handleVars, deviceVars, builder, calVars, running, unsubscribe, calls, srcRunning, srcUnsub,
                   avPresent, avRunning, avSubs, connected, stopped>>

\* source.onData(callback) called by another consumer of the source
OnData(kind) ==
    /\ Cardinality(UsedIds) + InFlight < MaxListeners
    /\ listeners' = Append(listeners, [id |-> FreshId, kind |-> kind])
    /\ lastOp' = "onData"
    /\ HistReset
    /\ UNCHANGED <<engineVars, wrapperVars, handleVars, deviceVars, builder, calVars, adapterVars, srcRunning, srcUnsub, avPresent, avRunning, avSubs,
                   connected, emitted, stopped>>

\* the unsubscribe function onData returned for subscription id, with the
\* callback it closes over
Handle(id) ==
    IF \E h \in released : h.id = id THEN CHOOSE h \in released : h.id = id
    ELSE CHOOSE h \in {[id |-> l.id, kind |-> l.kind] : l \in {listeners[k] : k \in 1..Len(listeners)}} : h.id = id

\* l is the callback h closes over: the callback of kind "shared" is one
\* function which a consumer subscribes more than once, every other
\* subscription has a function of its own
SameCallback(l, h) == IF h.kind = "shared" THEN l.kind = "shared" ELSE l.id = h.id

\* const idx = this._listeners.indexOf(callback)
IndexOf(ls, h) ==
    IF \E k \in 1..Len(ls) : SameCallback(ls[k], h)
    THEN CHOOSE k \in 1..Len(ls) : SameCallback(ls[k], h) /\ \A m \in 1..(k - 1) : ~SameCallback(ls[m], h)
    ELSE 0

\* idx counted from 1, 0 for -1: if (idx !== -1) this._listeners.splice(idx, 1)
Splice(ls, idx) == IF idx = 0 THEN ls ELSE [k \in 1..(Len(ls) - 1) |-> IF k < idx THEN ls[k] ELSE ls[k + 1]]

\* a consumer calls the unsubscribe function onData returned for its
\* subscription id, for the first time or again
Unsubscribe(id) ==
    /\ \/ \E k \in 1..Len(listeners) : listeners[k].id = id /\ listeners[k].kind # "adapter"
       \/ \E h \in released : h.id = id
    /\ listeners' = Splice(listeners, IndexOf(listeners, Handle(id)))
    /\ released' = released \cup {Handle(id)}
    /\ lastOp' = "unsubscribe"
    /\ HistReset
    /\ UNCHANGED <<engineVars, wrapperVars, deviceVars, builder, calVars, adapterVars, srcRunning, srcUnsub, avPresent, avRunning,
                   avSubs, connected, emitted, stopped>>

(***************************************************************************)
(* Calibration and tuning API.                                             *)
(***************************************************************************)
\* a write that replaces the calibration's fields by the one written
WriteCalWhole(field, value) ==
    IF calAlias
    THEN /\ schemaCal' = Put(EmptyMap, field, value)
         /\ UNCHANGED ownCal
    ELSE /\ ownCal' = Put(EmptyMap, field, value)
         /\ UNCHANGED schemaCal

\* this.calibration.<field> = value
WriteCal(field, value) ==
    IF calAlias
    THEN /\ schemaCal' = Put(schemaCal, field, value)
         /\ UNCHANGED ownCal
    ELSE /\ ownCal' = Put(ownCal, field, value)
         /\ UNCHANGED schemaCal

\* setCalibration dropping the profile: this.calibration = Object.assign({}, this.schema.calibration)
SetCalibrationDefaults(profile) ==
    /\ calAlias' = FALSE
    /\ ownCal' = schemaCal
    /\ refs' = [refs EXCEPT !["AR"] = EmptyMap]
    /\ UNCHANGED <<schemaCal, outputs>>

\* this.calibration = Object.assign({}, this.schema.calibration, profile): a
\* new object whose reference is the profile's reference object, or else the
\* very reference object of the schema
setCalibration(profile) ==
    LET base == ObjectAssign(schemaCal, profile)
        merged == IF Has(profile, "reference") THEN Put(base, "reference", "AR") ELSE base
    IN /\ calAlias' = FALSE
       /\ ownCal' = merged
       /\ refs' = [refs EXCEPT !["AR"] =
                      IF Has(profile, "reference") THEN profile["reference"]
                      ELSE IF Has(schemaCal, "reference") /\ schemaCal["reference"] = "AR" THEN @
                      ELSE EmptyMap]
       /\ UNCHANGED <<schemaCal, outputs>>

ApiCall ==
    /\ apiCalls < MaxApiCalls
    /\ apiCalls' = apiCalls + 1

\* JSON.stringify writes a number that is not finite as null
JsonNull == <<0, -1>>

JsonNum(a) == IF IsFinite(a) THEN a ELSE JsonNull

JsonNums(r) == [f \in DOMAIN r |-> JsonNum(r[f])]

JsonReference(reference) == [p \in DOMAIN reference |-> JsonNums(reference[p])]

JsonTuning(tuning) ==
    [k \in DOMAIN tuning |-> IF k = "reverse" THEN tuning[k] ELSE JsonNums(tuning[k])]

\* the value JSON.parse gives back for the text JSON.stringify wrote of v
JsonCalibration(v) ==
    [k \in DOMAIN v |-> IF k = "reference" THEN JsonReference(v[k]) ELSE JsonTuning(v[k])]

\* this.calibration with its reference object in place
CalValue(cal, heap) == [k \in DOMAIN cal |-> IF k = "reference" THEN heap[cal[k]] ELSE cal[k]]

\* the JSON text of this.calibration: JSON.parse accepts it and gives its value
exportCalibration == [valid |-> TRUE, value |-> JsonCalibration(CalValue(Cal, refs))]

getCalibration == JsonCalibration(CalValue(Cal, refs))

SetCalibration(profile) ==
    /\ ApiCall
    /\ setCalibration(profile)
    /\ lastCall' = Call("setCalibration", profile, Undefined)
    /\ lastOp' = "setCalibration"
    /\ HistReset
    /\ UNCHANGED <<engineVars, wrapperVars, handleVars, deviceVars, builder, adapterVars, sourceVars, connected, emitted, stopped>>

\* importCalibration passing whatever text it is given on as an empty profile
ImportUnparsed(json) ==
    /\ setCalibration(json.value)
    /\ lastCall' = Call("importCalibration", json, TRUE)
    /\ lastOp' = "import-ok"

\* JSON.parse of the text, then setCalibration; a SyntaxError is caught
importCalibration(json) ==
    IF json.valid
    THEN /\ setCalibration(json.value)
         /\ lastCall' = Call("importCalibration", json, TRUE)
         /\ lastOp' = "import-ok"
    ELSE /\ UNCHANGED <<outputs, schemaCal, refs, calAlias, ownCal>>
         /\ lastCall' = Call("importCalibration", json, FALSE)
         /\ lastOp' = "import-failed"

ImportCalibration(json) ==
    /\ ApiCall
    /\ importCalibration(json)
    /\ HistReset
    /\ UNCHANGED <<engineVars, wrapperVars, handleVars, deviceVars, builder, adapterVars, sourceVars, connected, emitted, stopped>>

\* adapter.importCalibration(adapter.exportCalibration())
ExportImport == ImportCalibration(exportCalibration)

\* pipeline.getProcessor(className): position of the first processor of that
\* class, 0 for null
getProcessor(className) ==
    IF \E i \in 1..Len(processors) : processors[i] = className
    THEN CHOOSE i \in 1..Len(processors) :
            processors[i] = className /\ \A j \in 1..(i - 1) : processors[j] # className
    ELSE 0

\* this.calibration.reference[point] = {rawRotation: theta, variance: 0.02}
Capture(point, theta) ==
    /\ lastOp' = "capture"
    /\ lastCall' = Call("captureReferencePoint", point, RefPoint(theta, CaptureVariance))
    /\ IF Has(Cal, "reference")
       THEN /\ refs' = [refs EXCEPT ![Cal["reference"]] =
                           Put(@, point, RefPoint(theta, CaptureVariance))]
            /\ UNCHANGED <<schemaCal, ownCal>>
       ELSE /\ refs' = [refs EXCEPT !["AR"] =
                           Put(EmptyMap, point, RefPoint(theta, CaptureVariance))]
            /\ WriteCal("reference", "AR")
    /\ UNCHANGED <<outputs, calAlias>>

captureReferencePoint(point) ==
    IF getProcessor("SmoothProcessor") = 0 \/ ~Truthy(procState.smooth.theta)
    THEN /\ lastOp' = "capture-null"
         /\ lastCall' = Call("captureReferencePoint", point, Null)
         /\ UNCHANGED <<outputs, schemaCal, refs, calAlias, ownCal>>
    ELSE Capture(point, procState.smooth.theta)

CaptureReferencePoint(point) ==
    /\ ApiCall
    /\ captureReferencePoint(point)
    /\ HistReset
    /\ UNCHANGED <<engineVars, wrapperVars, handleVars, deviceVars, builder, adapterVars, sourceVars, connected, emitted, stopped>>

\* this.calibration.reference || {}
ReferenceOf(cal, heap) == IF Has(cal, "reference") THEN heap[cal["reference"]] ELSE EmptyMap

\* a rule that reports its issue and leaves the quality as it is
RuleUnscored(v, triggered, issue, factor) ==
    IF triggered THEN [issues |-> Append(v.issues, issue), quality |-> v.quality] ELSE v

\* issues.push(issue); quality *= factor, when the rule is triggered
Rule(v, triggered, issue, factor) ==
    IF triggered
    THEN [issues |-> Append(v.issues, issue), quality |-> NumMul(v.quality, factor)]
    ELSE v

\* range < 0.3 of validateCalibration
RangeRule(reference, v) ==
    Rule(v, NumLt(NumSub(RawRotationOr(reference, "pronate", Zero),
                         RawRotationOr(reference, "supinate", Zero)), <<3, 10>>),
         "Rotation range too small", Half)

\* asymmetry > 0.2 of validateCalibration
SymmetryRule(reference, v) ==
    Rule(v, NumLt(<<1, 5>>,
                  NumAbs(NumSub(NumAbs(RawRotationOr(reference, "supinate", Zero)),
                              NumAbs(RawRotationOr(reference, "pronate", Zero))))),
         "Asymmetric range detected", <<4, 5>>)

\* Math.abs(center) > 0.1 of validateCalibration
CenterRule(reference, v) ==
    Rule(v, NumLt(<<1, 10>>, NumAbs(RawRotationOr(reference, "center", Zero))),
         "Center point not neutral", <<9, 10>>)

Verdict(v) == [valid |-> Len(v.issues) = 0, issues |-> v.issues, quality |-> v.quality]

validateCalibration ==
    Verdict(CenterRule(ReferenceOf(Cal, refs),
            SymmetryRule(ReferenceOf(Cal, refs),
            RangeRule(ReferenceOf(Cal, refs), [issues |-> <<>>, quality |-> One]))))

ValidateCalibration ==
    /\ ApiCall
    /\ lastCall' = Call("validateCalibration", Undefined, validateCalibration)
    /\ lastOp' = "validateCalibration"
    /\ HistReset
    /\ UNCHANGED <<engineVars, wrapperVars, handleVars, deviceVars, builder, outputs, schemaCal, refs, calAlias, ownCal, adapterVars, sourceVars,
                   connected, emitted, stopped>>

TuningOf(cal) == IF Has(cal, "tuning") THEN cal["tuning"] ELSE EmptyMap

getTuning == ObjectAssign(EmptyMap, TuningOf(Cal))

SetTuning(partial) ==
    /\ ApiCall
    /\ WriteCal("tuning", ObjectAssign(TuningOf(Cal), partial))
    /\ lastCall' = Call("setTuning", partial, Undefined)
    /\ lastOp' = "setTuning"
    /\ HistReset
    /\ UNCHANGED <<engineVars, wrapperVars, handleVars, deviceVars, builder, outputs, refs, calAlias, adapterVars, sourceVars, connected, emitted, stopped>>

ResetTuning ==
    /\ ApiCall
    /\ WriteCal("tuning", ObjectAssign(EmptyMap, TuningOf(schemaCal)))
    /\ lastCall' = Call("resetTuning", Undefined, Undefined)
    /\ lastOp' = "resetTuning"
    /\ HistReset
    /\ UNCHANGED <<engineVars, wrapperVars, handleVars, deviceVars, builder, outputs, refs, calAlias, adapterVars, sourceVars, connected, emitted, stopped>>

(***************************************************************************)
(* Specification.                                                          *)
(***************************************************************************)
\* the frame that arrives during the life cycle: a detected hand
LifeFrames == {f \in Frames : f.n = MinLandmarks /\ f.derived["finger-spread"] = Two}

Next ==
    \/ CallStart
    \/ \E c \in 1..MaxCalls : ResumeConnect(c)
    \/ \E c \in 1..MaxCalls, ok \in BOOLEAN : InitSettle(c, ok)
    \/ \E c \in 1..MaxCalls : ResumeStart(c)
    \/ Stop
    \/ \E frame \in LifeFrames : SourceEmit(frame, {}, {})

Spec == Init /\ [][Next]_vars

(***************************************************************************)
(* Properties of the life cycle.                                           *)
(***************************************************************************)
\* the callbacks the adapter has subscribed to the source
AdapterSubscriptions == {k \in 1..Len(listeners) : listeners[k].kind = "adapter"}

\* the adapter's callback has processed the frame of the last emit
Delivered == lastOp = "emit" /\ stats.lastTimestamp = lastFrame.timestamp

\* C1: a frame delivered to the adapter is pipelined if and only if it has at
\* least 21 landmarks.  A shorter frame (or one without landmarks) is counted
\* in framesProcessed once per delivery and in nothing else: detectedFrames
\* and the processors' state stay as they were, no processor is invoked and
\* no sink gets an emit call.  A frame of 21 or more is counted in both and
\* goes through every stage of the pipeline.
C1_ShortFramesCountedNotPipelined ==
    [][lastOp' = "emit" =>
        LET n == Cardinality(AdapterSubscriptions)
        IN /\ stats'.framesProcessed = stats.framesProcessed + n
           /\ lastFrame'.n < MinLandmarks =>
                 /\ stats'.detectedFrames = stats.detectedFrames
                 /\ procState' = procState
                 /\ stageLog' = <<>>
                 /\ emitLog' = <<>>
           /\ (lastFrame'.n >= MinLandmarks /\ n > 0) =>
                 /\ stats'.detectedFrames = stats.detectedFrames + n
                 /\ Len(stageLog') = Len(processors)]_vars

C1_Witness ==
    /\ Delivered
    /\ lastFrame.n = 20
    /\ stats.framesProcessed = 2
    /\ stats.detectedFrames = 1

\* C2: start() is idempotent, also when called again while an earlier call
\* is still awaiting: the adapter never holds more than one subscription to
\* the source, so a frame is never counted twice.
C2_AtMostOneSubscription ==
    /\ Cardinality(AdapterSubscriptions) <= 1
    /\ Delivered => stats.framesProcessed <= emitted

\* C3: once stop() has returned and until start() is called again, the
\* adapter is not running and holds no subscription, the source is stopped,
\* and no frame is processed or emitted to a sink.
C3_StopCancels ==
    stopped =>
        /\ ~running
        /\ unsubscribe = 0
        /\ AdapterSubscriptions = {}
        /\ ~srcRunning
        /\ ~Delivered
        /\ emitLog = <<>>

\* C8: when source.start() reports failure, start() does not subscribe and
\* changes neither _running nor the statistics; and as long as the adapter is
\* not running and not subscribed, every step but the completion of a
\* successful start() leaves it so and processes no frame.
C8_FailedSourceStartLeavesAdapterStopped ==
    [][/\ lastOp' = "start-failed" =>
            /\ listeners' = listeners
            /\ unsubscribe' = unsubscribe
            /\ running' = running
            /\ stats' = stats
       /\ (~running /\ AdapterSubscriptions = {} /\ lastOp' # "start-done") =>
            /\ ~running'
            /\ listeners' = listeners
            /\ stats' = stats]_vars

C8_Witness ==
    /\ lastOp = "start-failed"
    /\ ~running
    /\ listeners = <<>>
    /\ connected[1]
    /\ \A c \in 1..MaxCalls : calls[c].at = "idle"

(***************************************************************************)
(* The legacy PaddleVision wrapper: the adapter is started, stopped and    *)
(* destroyed through it.                                                   *)
(***************************************************************************)
NextWrapper ==
    \/ WrapperStart
    \/ \E c \in 1..MaxCalls : ResumeConnect(c)
    \/ \E c \in 1..MaxCalls, ok \in BOOLEAN : InitSettle(c, ok)
    \/ \E c \in 1..MaxCalls : ResumeStart(c)
    \/ WrapperStop
    \/ WrapperDestroy
    \/ \E frame \in LifeFrames : SourceEmit(frame, {}, {})

SpecWrapper == Init /\ [][NextWrapper]_vars

\* C37: running of the wrapper follows the adapter: it is true whenever the
\* adapter runs, and false after stop() and destroy().
C37_WrapperRunningTracksAdapter ==
    /\ running => wrapperRunning
    /\ lastOp \in {"stop", "stop-noop", "destroy"} => ~wrapperRunning

\* C35: whenever the adapter is not running and no start() is in flight,
\* after a start() that failed or a stop(), no sink is connected.
C35_SinksConnectedOnlyWhileRunning ==
    (/\ ~running
     /\ InFlight = 0
     /\ lastOp \in {"start-failed", "stop", "stop-noop"}) => \A s \in Sinks : ~connected[s]

(***************************************************************************)
(* The source and its consumers: other callbacks subscribe to and          *)
(* unsubscribe from the source of a started adapter while frames arrive.   *)
(***************************************************************************)
InitSource ==
    /\ builder = Built
    /\ DevicesIdle
    /\ NoneReleased
    /\ EngineIdle
    /\ Construct(DefaultOutputs, EmptyMap)
    /\ \E before \in {<<>>, <<[id |-> 1, kind |-> "throws"]>>} : Started(before)

\* the frames the source emits: without landmarks, short, and a detected hand
SourceFrames == {f \in Frames : f.n < MinLandmarks} \cup LifeFrames

\* the sinks whose emit throws on a frame: none or the first
SourceThrowers == {{}, {1}}

NextSource ==
    \/ \E kind \in ListenerKinds : OnData(kind)
    \/ \E id \in 1..MaxListeners : Unsubscribe(id)
    \/ \E frame \in SourceFrames, throwers \in SourceThrowers : SourceEmit(frame, {}, throwers)

SpecSource == InitSource /\ [][NextSource]_vars

\* C7: an emit calls every subscribed callback once, in subscription order,
\* whether or not an earlier one threw, and every exception is caught.
C7_EveryListenerCalledOnce ==
    [][lastOp' = "emit" =>
        /\ invoked' = [k \in 1..Len(listeners) |-> listeners[k].id]
        /\ caught' >= Cardinality({k \in 1..Len(listeners) : listeners[k].kind = "throws"})
        /\ caught' <= Len(listeners)]_vars

C7_Witness ==
    /\ Delivered
    /\ Len(listeners) = 3
    /\ listeners[1].kind = "throws"
    /\ listeners[2].kind = "adapter"
    /\ listeners[3].kind = "ok"
    /\ Len(invoked) = 3
    /\ caught = 2

(***************************************************************************)
(* Subscriptions that change while the source runs: callbacks that         *)
(* unsubscribe during a dispatch, and a callback subscribed more than once. *)
(***************************************************************************)
DispatchKinds == {"ok", "unsubscribes", "shared"}

NextDispatch ==
    \/ \E kind \in DispatchKinds : OnData(kind)
    \/ \E id \in 1..(MaxListeners + 1) : Unsubscribe(id)
    \/ \E frame \in LifeFrames : SourceEmit(frame, {}, {})

SpecDispatch == InitSource /\ [][NextDispatch]_vars

\* the ids of the callbacks in a list
Ids(ls) == {ls[k].id : k \in 1..Len(ls)}

\* the number of times callback id was called in the last dispatch
TimesInvoked(inv, id) == Cardinality({k \in 1..Len(inv) : inv[k] = id})

\* C33: when a callback unsubscribes during a dispatch, every callback that
\* was subscribed when the dispatch began and has not been unsubscribed is
\* still called exactly once with the frame.
C33_UnsubscribeDuringDispatch ==
    [][lastOp' = "emit" =>
          \A id \in Ids(listeners) \cap Ids(listeners') : TimesInvoked(invoked', id) = 1]_vars

\* C34: a second call of an unsubscribe function removes nothing: every
\* subscription registered before it is registered after it.
C34_UnsubscribeIdempotent ==
    [][(lastOp' = "unsubscribe" /\ released' = released) => listeners' = listeners]_vars

(***************************************************************************)
(* The frame path of a started adapter: frames with processors and sinks   *)
(* that may throw, for each configuration of the schema's outputs.         *)
(***************************************************************************)
InitPipeline ==
    /\ builder = Built
    /\ DevicesIdle
    /\ NoneReleased
    /\ EngineIdle
    /\ \E outs \in OutputVariants : Construct(outs, EmptyMap)
    /\ Started(<<>>)

\* the processors that throw on a frame: none, any one, or two in a row
FaultSets == {{}} \cup {{i} : i \in 1..Len(processors)} \cup {{2, 3}}

\* the sinks whose emit throws on a frame: any one
ThrowerSets == {{s} : s \in Sinks}

\* a frame arrives while some processors throw, or while one sink throws
NextPipeline ==
    \/ \E frame \in Frames, faults \in FaultSets : SourceEmit(frame, faults, {})
    \/ \E frame \in Frames, throwers \in ThrowerSets : SourceEmit(frame, {}, throwers)
    \/ Destroy

SpecPipeline == InitPipeline /\ [][NextPipeline]_vars

Pipelined == Delivered /\ lastFrame.n >= MinLandmarks

\* C4: every value stored in context.outputs and passed to a sink for a
\* schema output lies in [0,1].
C4_OutputsInUnitInterval ==
    /\ \A n \in DOMAIN lastCtx.outputs : InUnit(lastCtx.outputs[n])
    /\ \A k \in 1..Len(emitLog) :
          (\E j \in 1..Len(OutputNames) : OutputNames[j] = emitLog[k].name)
             => InUnit(emitLog[k].value)

\* C5: when a processor throws on a frame the pipeline catches it: every
\* processor of the list is still invoked, in order, each receiving the
\* context the pipeline held after the stage before it, which a throwing
\* stage leaves as it received it; nothing reaches the source's catch unless
\* a sink threw; and every frame is still counted.
C5_PipelineFaultIsolation ==
    /\ stats.framesProcessed = emitted
    /\ Pipelined =>
          /\ Len(stageLog) = Len(processors)
          /\ \A i \in 1..Len(stageLog) :
                /\ stageLog[i].name = processors[i]
                /\ stageLog[i].threw <=>
                      (i \in stageFaults \/ StageThrows(processors[i], stageLog[i].in))
                /\ stageLog[i].threw => stageLog[i].out = stageLog[i].in
                /\ i > 1 => stageLog[i].in = stageLog[i - 1].out
          /\ sinkFaults = {} => caught = 0

C5_Witness ==
    /\ Pipelined
    /\ emitted = 2
    /\ stats.detectedFrames = 2
    /\ stageFaults = {2}
    /\ stageLog[3].out # stageLog[3].in
    /\ stageLog[3].in = stageLog[1].out
    /\ procState.smooth # SmoothInit

\* C6: a sink whose emit throws does not abort the fan-out: on a pipelined
\* frame every sink gets an emit call for every output of the schema.
C6_FailingSinkDoesNotAbortFanOut ==
    Pipelined =>
        \A s \in Sinks : \A j \in 1..Len(OutputNames) :
            \E k \in 1..Len(emitLog) : emitLog[k].sink = s /\ emitLog[k].name = OutputNames[j]

(***************************************************************************)
(* The calibration and tuning API of a started adapter.                    *)
(***************************************************************************)
InitCalibration ==
    /\ builder = Built
    /\ DevicesIdle
    /\ NoneReleased
    /\ EngineIdle
    /\ \E supplied \in SuppliedCalibrations : Construct(DefaultOutputs, supplied)
    /\ Started(<<>>)

CalFrames == {f \in Frames : f.n = MinLandmarks}

\* a frame arrives between two calls of the API
CalibrationFrame(frame) ==
    /\ emitted < MaxCalFrames
    /\ SourceEmit(frame, {}, {})

NextCalibration ==
    \/ \E frame \in CalFrames : CalibrationFrame(frame)
    \/ \E profile \in Profiles : SetCalibration(profile)
    \/ \E json \in JsonTexts : ImportCalibration(json)
    \/ ExportImport
    \/ \E point \in Points : CaptureReferencePoint(point)
    \/ \E partial \in Partials : SetTuning(partial)
    \/ ResetTuning
    \/ ValidateCalibration

SpecCalibration == InitCalibration /\ [][NextCalibration]_vars

\* C9: the schema is a read-only template: its calibration object, with its
\* reference points and its tuning, is never changed by the adapter.
C9_SchemaCalibrationUnchanged ==
    /\ schemaCal = [reference |-> "SR", tuning |-> DefaultTuning]
    /\ refs["SR"] = DefaultReference

\* C10: after resetTuning() getTuning() is the tuning the schema's default
\* calibration had when the adapter was built.
C10_ResetTuningRestoresSchemaDefaults ==
    lastOp = "resetTuning" => getTuning = DefaultTuning

\* a step that is a call of the calibration API op
Calls(op) == apiCalls' # apiCalls /\ lastCall'.op = op

\* C11: importCalibration of a text that is not valid JSON returns false
\* (it does not throw) and leaves the adapter's calibration, reference and
\* tuning, exactly as it was before the call.
C11_MalformedImportRejected ==
    [][(Calls("importCalibration") /\ ~lastCall'.arg.valid) =>
          /\ lastCall'.result = FALSE
          /\ getCalibration' = getCalibration
          /\ <<schemaCal, refs, calAlias, ownCal>>' = <<schemaCal, refs, calAlias, ownCal>>]_vars

C11_Witness ==
    /\ lastOp = "import-failed"
    /\ lastCall.result = FALSE
    /\ ~calAlias
    /\ getCalibration = [reference |-> OtherReference, tuning |-> DefaultTuning]

\* a step that is importCalibration(exportCalibration())
RoundTrips == Calls("importCalibration") /\ lastCall'.arg = exportCalibration

\* C12 as stated: for every calibration state the adapter can hold,
\* importCalibration(exportCalibration()) returns true and leaves
\* getCalibration() equal to its value before the call.
C12_RoundTripEveryState ==
    [][RoundTrips => (lastCall'.result = TRUE /\ getCalibration' = getCalibration)]_vars

\* C12: for every calibration state that holds a reference and a tuning,
\* importCalibration(exportCalibration()) returns true and leaves
\* getCalibration() equal to its value before the call; it always returns true.
C12_RoundTripCompleteState ==
    [][RoundTrips =>
          /\ lastCall'.result = TRUE
          /\ (Has(Cal, "reference") /\ Has(Cal, "tuning")) => getCalibration' = getCalibration]_vars

C12_Witness ==
    /\ lastOp = "import-ok"
    /\ lastCall.arg = exportCalibration
    /\ Has(getCalibration.reference, "pronate")
    /\ getCalibration.reference["pronate"].variance = CaptureVariance
    /\ getCalibration.reference["pronate"].rawRotation = procState.smooth.theta
    /\ refs["SR"] = DefaultReference

\* C13: captureReferencePoint(point) sets reference[point] to the Smooth
\* processor's current theta t with variance 0.02, for every t (t = 0
\* included), returns that record and leaves the other reference points
\* unchanged; the pipeline has a Smooth processor, so it never returns null.
C13_CaptureRecordsCurrentTheta ==
    [][Calls("captureReferencePoint") =>
          /\ lastOp' # "capture-null"
          /\ lastCall'.result = RefPoint(procState.smooth.theta, CaptureVariance)
          /\ Has(getCalibration', "reference")
          /\ getCalibration'.reference =
                Put(IF Has(getCalibration, "reference") THEN getCalibration.reference ELSE EmptyMap,
                    lastCall'.arg, RefPoint(procState.smooth.theta, CaptureVariance))]_vars

\* C14: with the default schema and pipeline the hand-x, hand-y, hand-theta
\* and hand-spread values sent to the sinks are computed from the Smooth
\* stage's channels x, y, theta and spread.
C14_EmittedSignalsAreSmoothed ==
    (Pipelined /\ stageFaults = {} /\ sinkFaults = {} /\ outputs = DefaultOutputs) =>
        \A k \in 1..Len(emitLog) :
            LET channel == CASE emitLog[k].name = "hand-x" -> "x"
                             [] emitLog[k].name = "hand-y" -> "y"
                             [] emitLog[k].name = "hand-theta" -> "theta"
                             [] emitLog[k].name = "hand-spread" -> "spread"
                             [] OTHER -> ""
            IN channel # "" =>
                  emitLog[k].value =
                      Clamp01(ApplyRange(lastCtx.smoothed[channel], outputs[emitLog[k].name].range))

(***************************************************************************)
(* Output resolution and mapping as functions of the context:              *)
(* adapter._emitOutputs(context) on the contexts of Contexts, for each     *)
(* configuration of the schema's outputs.                                  *)
(***************************************************************************)
EmitOutputs(context) ==
    /\ \E e \in {_emitOutputs(context, outputs, {})} :
          /\ lastCtx' = e.ctx
          /\ held' = "none"
          /\ emitLog' = e.calls
    /\ lastOp' = "emitOutputs"
    /\ lastFrame' = NoFrame
    /\ stageLog' = <<>>
    /\ invoked' = <<>>
    /\ caught' = 0
    /\ stageFaults' = {}
    /\ sinkFaults' = {}
    /\ UNCHANGED <<engineVars, wrapperVars, handleVars, deviceVars, builder, calVars, adapterVars, sourceVars, connected, emitted, stopped>>

NextOutputs == \E context \in Contexts : EmitOutputs(context)

SpecOutputs == InitPipeline /\ [][NextOutputs]_vars

\* the sub-maps of a context in the order they are searched
SubMaps(context) == <<context.smoothed, context.calibrated, context.derived>>

\* C15: the source name of each schema output is looked up in
\* context.smoothed, then context.calibrated, then context.derived; the first
\* sub-map that contains the name supplies the value, of which the
\* configured component is taken; a name in none of the three resolves to 0.
\* The value stored and sent for the output is that value mapped.
C15_FirstSubMapWins ==
    lastOp = "emitOutputs" =>
        \A j \in 1..Len(OutputNames) :
            LET config == outputs[OutputNames[j]]
                hits == {i \in 1..3 : config.source \in DOMAIN SubMaps(lastCtx)[i]}
                first == CHOOSE i \in hits : \A h \in hits : i <= h
                value == IF hits = {} THEN Zero
                         ELSE Select(config.source, SubMaps(lastCtx)[first][config.source],
                                     config.component)
            IN /\ _resolveOutput(lastCtx, config) = value
               /\ lastCtx.outputs[OutputNames[j]] =
                     Clamp01(ApplyInvert(ApplyRange(value, config.range), config.invert))

C15_Witness ==
    /\ lastOp = "emitOutputs"
    /\ lastCtx.smoothed = Named(Vec(Half, Zero), One, Half)
    /\ lastCtx.calibrated = Named(Vec(NumNeg(One), One), NumNeg(One), One)
    /\ lastCtx.derived = Named(Vec(Zero, Zero), Zero, Zero)
    /\ outputs = DefaultOutputs
    /\ lastCtx.outputs["hand-spread"] = Half
    /\ lastCtx.outputs["hand-x"] = <<3, 4>>

\* the calls of the last emit that carry output name with value
Sent(name, value) ==
    {k \in 1..Len(emitLog) : emitLog[k].name = name /\ emitLog[k].value = value}

\* C16: an output with range input [-1,1], output [0,1] and no inversion
\* maps the resolved values -1, 0 and 1 to 0, 0.5 and 1; in general the value
\* stored and sent to every sink is clamp01 of (1 minus, if inverted)
\* outLo + (v - inLo) / (inHi - inLo) * (outHi - outLo): remap, invert, clamp.
C16_RangeMapping ==
    lastOp = "emitOutputs" =>
        \A j \in 1..Len(OutputNames) :
            LET config == outputs[OutputNames[j]]
                v == _resolveOutput(lastCtx, config)
                r == config.range
                mapped == NumAdd(r[3], NumMul(NumDiv(NumSub(v, r[1]), NumSub(r[2], r[1])),
                                              NumSub(r[4], r[3])))
                out == lastCtx.outputs[OutputNames[j]]
            IN /\ (r = SignedRange /\ ~config.invert) =>
                     /\ v = NumNeg(One) => out = Zero
                     /\ v = Zero => out = Half
                     /\ v = One => out = One
               /\ out = MathMax(Zero, MathMin(One, IF config.invert THEN NumSub(One, mapped)
                                                    ELSE mapped))
               /\ Cardinality(Sent(OutputNames[j], out)) = NSinks

C16_Witness ==
    /\ lastOp = "emitOutputs"
    /\ outputs["hand-theta"] = OutputConfig("hand-rotation-calibrated", "", SignedRange, TRUE)
    /\ _resolveOutput(lastCtx, outputs["hand-theta"]) = NumNeg(One)
    /\ lastCtx.outputs["hand-theta"] = One
    /\ _resolveOutput(lastCtx, outputs["hand-x"]) = NumNeg(One)
    /\ lastCtx.outputs["hand-x"] = Zero
    /\ _resolveOutput(lastCtx, outputs["hand-y"]) = One
    /\ lastCtx.outputs["hand-y"] = One
    /\ Sent("hand-theta", One) # {}

\* the calls of the last emit that carry one of the two flick outputs
FlickSent == {k \in 1..Len(emitLog) : emitLog[k].name \in {"flick-amount", "flick-direction"}}

\* C17: on a pipelined frame on which the magnitude of the accumulated
\* rotation velocity is at or below the FlickDetect processor's threshold, no
\* flick-amount or flick-direction output is sent to any sink.
C17_FlickOnlyAboveThreshold ==
    (/\ Pipelined
     /\ Has(lastCtx.gestures, "flick")
     /\ NumLe(NumAbs(lastCtx.gestures["flick"].velocity), FlickConfig.threshold))
        => FlickSent = {}

\* gestures.flick.amount of the last pipelined frame is greater than 0.1
FlickDetected ==
    Has(lastCtx.gestures, "flick") /\ NumLt(<<1, 10>>, lastCtx.gestures["flick"].amount)

C19_OnlyConnectedSinksGetEmits ==
    \A k \in 1..Len(emitLog) : connected[emitLog[k].sink]

(***************************************************************************)
(* The builder: the calls of the fluent API before the adapter is started. *)
(* A call that throws leaves the builder to a caller that catches.         *)
(***************************************************************************)
BuilderCall(op) ==
    /\ lastOp' = op
    /\ HistReset
    /\ UNCHANGED <<engineVars, wrapperVars, handleVars, deviceVars, calVars, adapterVars, sourceVars, connected, emitted, stopped>>

\* this._schema = SCHEMAS[schemaId]; if (!this._schema) throw
useSchema(schemaId) ==
    IF schemaId \in builder.SCHEMAS
    THEN [builder EXCEPT !.schema = schemaId, !.threw = FALSE]
    ELSE [builder EXCEPT !.schema = "", !.threw = TRUE]

\* if (!factory) throw; this._source = factory(options || {})
fromSource(type) ==
    IF type \in SOURCES
    THEN [builder EXCEPT !.source = type, !.threw = FALSE]
    ELSE [builder EXCEPT !.threw = TRUE]

\* build() has returned an adapter: its sinks are the array this._sinks of the
\* builder, passed as options.sinks and kept as this.sinks
HasAdapter(b) == b.adapter.schema # ""

\* if (!factory) throw; this._sinks.push(factory(options || {})): the push
\* is on the array an adapter already built holds
toSink(type) ==
    IF type \in SINKS
    THEN [builder EXCEPT !.sinks = Append(@, type), !.threw = FALSE,
                         !.adapter.sinks = IF HasAdapter(builder) THEN Append(@, type) ELSE @]
    ELSE [builder EXCEPT !.threw = TRUE]

\* PROCESSOR_REGISTRY of pipeline.js: the class each registered name gives
PROCESSOR_REGISTRY ==
    [n \in {"extract", "calibrate", "smooth", "flick-detect"} |->
        CASE n = "extract" -> "ExtractProcessor"
          [] n = "calibrate" -> "CalibrateProcessor"
          [] n = "smooth" -> "SmoothProcessor"
          [] n = "flick-detect" -> "FlickDetectProcessor"]

\* names PROCESSOR_REGISTRY[name] finds on Object.prototype, the registry
\* being an object literal
ObjectPrototype == {"constructor", "toString"}

\* _getProcessorClass(name), and whether new ProcessorClass(...) can follow:
\* the class of a registered name, "" (null) for a name that is not found,
\* and "TypeError" for a name found on Object.prototype, whose value called
\* as a getter returns no constructor
_getProcessorClass(name) ==
    IF name \in DOMAIN PROCESSOR_REGISTRY THEN PROCESSOR_REGISTRY[name]
    ELSE IF name \in ObjectPrototype THEN "TypeError"
    ELSE ""

RECURSIVE _buildFromSchema(_, _, _)
\* the loop of _buildFromSchema from entry i on, built being this.processors
_buildFromSchema(pipelineDef, i, built) ==
    IF i > Len(pipelineDef) THEN [processors |-> built, threw |-> FALSE]
    ELSE IF _getProcessorClass(pipelineDef[i]) = "TypeError"
    THEN [processors |-> built, threw |-> TRUE]
    ELSE _buildFromSchema(pipelineDef, i + 1,
             IF _getProcessorClass(pipelineDef[i]) = "" THEN built
             ELSE Append(built, _getProcessorClass(pipelineDef[i])))

\* the pipeline list of the default schema
DefaultPipeline == <<"extract", "calibrate", "smooth", "flick-detect">>

\* build(): the defaults are written to the builder
WithDefaults(b) ==
    [b EXCEPT
        !.schema = IF @ # "" THEN @
                   ELSE IF "hand-basic" \in b.SCHEMAS THEN "hand-basic" ELSE "default",
        !.source = IF @ # "" THEN @ ELSE "asciivision",
        !.sinks = IF @ # <<>> THEN @ ELSE <<"events">>]

\* schema.pipeline of the schema the builder holds
PipelineOf(b) == IF b.schema = "default" THEN DefaultPipeline ELSE b.pipeline

\* new PaddleVisionAdapter(...) of builder b, its pipeline built as r
NewAdapter(b, r) ==
    [b EXCEPT
        !.threw = r.threw,
        !.adapter = IF r.threw THEN @
                    ELSE [schema |-> b.schema, source |-> b.source, sinks |-> b.sinks,
                          processors |-> r.processors]]

MakeAdapter(b) == NewAdapter(b, _buildFromSchema(PipelineOf(b), 1, <<>>))

build == MakeAdapter(WithDefaults(builder))

UseSchema(schemaId) == builder' = useSchema(schemaId) /\ BuilderCall("useSchema")

FromSource(type) == builder' = fromSource(type) /\ BuilderCall("fromSource")

ToSink(type) ==
    /\ Len(builder.sinks) < NSinks
    /\ builder' = toSink(type)
    /\ BuilderCall("toSink")

Build == builder' = build /\ BuilderCall("build")

InitBuilder ==
    /\ \E schemas \in SUBSET SchemaIds, pipeline \in PipelineLists :
          builder = NewBuilder(schemas, pipeline)
    /\ DevicesIdle
    /\ NoneReleased
    /\ EngineIdle
    /\ Construct(DefaultOutputs, EmptyMap)
    /\ NotStarted
    /\ avPresent = TRUE

\* the names passed to the builder: the registered ones and one that is not
NextBuilder ==
    \/ \E schemaId \in SchemaIds \cup {"unknown"} : UseSchema(schemaId)
    \/ \E type \in SOURCES \cup {"unknown"} : FromSource(type)
    \/ \E type \in SINKS \cup {"unknown"} : ToSink(type)
    \/ Build

SpecBuilder == InitBuilder /\ [][NextBuilder]_vars

\* C36: a call of toSink, useSchema or fromSource on a builder changes
\* nothing of an adapter that build() returned before: its sinks, source,
\* schema and pipeline stay as built.
C36_BuiltAdapterIsolated ==
    [][(lastOp' \in {"toSink", "useSchema", "fromSource"} /\ HasAdapter(builder)) =>
          builder'.adapter = builder.adapter]_vars

\* C20: a call of useSchema, fromSource or toSink with a name that is not
\* registered does not throw: the adapter is omitted, the other settings of
\* the builder stay, and build() still produces an adapter.
C20_ConfigurationErrorsNonFatal ==
    /\ ~builder.threw
    /\ lastOp = "build" => builder.adapter.schema # ""

\* the extract stage of the last pipelined frame, when the frame has the
\* landmarks and no fault was injected into the stage
Extracted ==
    /\ Pipelined /\ lastFrame.n >= MinLandmarks /\ 1 \notin stageFaults
    /\ Len(stageLog) >= 1 /\ stageLog[1].name = "ExtractProcessor"

\* C26: for every frame with at least 21 landmarks ExtractProcessor.process
\* returns a context whose derived map has exactly the names of schema.derived
\* whose derivation yields a value: an entry of unknown type or one that
\* errors is omitted, the others are present; context.raw is not modified.
C26_ExtractDerivesEveryEntry ==
    Extracted =>
        /\ DOMAIN stageLog[1].out.derived = DOMAIN lastFrame.derived
        /\ \A name \in DOMAIN lastFrame.derived :
              stageLog[1].out.derived[name] = lastFrame.derived[name]
        /\ stageLog[1].out.raw = stageLog[1].in.raw

\* the stored rotation of a reference point of this.calibration
StoredRotation(point) == ReferenceOf(Cal, refs)[point].rawRotation

AllPointsSet == \A point \in Points : Has(ReferenceOf(Cal, refs), point)

RangeTooSmall == NumLt(NumSub(StoredRotation("pronate"), StoredRotation("supinate")), <<3, 10>>)

Asymmetric == NumLt(<<1, 5>>, NumAbs(NumSub(NumAbs(StoredRotation("supinate")), NumAbs(StoredRotation("pronate")))))

CenterOff == NumLt(<<1, 10>>, NumAbs(StoredRotation("center")))

Triggered == {r \in {"range", "symmetry", "center"} :
                 \/ r = "range" /\ RangeTooSmall
                 \/ r = "symmetry" /\ Asymmetric
                 \/ r = "center" /\ CenterOff}

\* C22: validateCalibration() returns the quality 1.0 times 0.5 if pronate -
\* supinate < 0.3, times 0.8 if | |supinate| - |pronate| | > 0.2, times 0.9
\* if |center| > 0.1, with one issue for each rule triggered and valid true
\* exactly if none is; the call leaves the calibration as it is.
C22_ValidationScore ==
    [][Calls("validateCalibration") =>
          /\ UNCHANGED <<schemaCal, refs, calAlias, ownCal>>
          /\ AllPointsSet =>
                /\ lastCall'.result.quality =
                      NumMul(NumMul(IF RangeTooSmall THEN Half ELSE One,
                                    IF Asymmetric THEN <<4, 5>> ELSE One),
                             IF CenterOff THEN <<9, 10>> ELSE One)
                /\ Len(lastCall'.result.issues) = Cardinality(Triggered)
                /\ \A i, j \in 1..Len(lastCall'.result.issues) :
                      i # j => lastCall'.result.issues[i] # lastCall'.result.issues[j]
                /\ lastCall'.result.valid <=> Triggered = {}]_vars

\* a validation that found the captured center off and nothing else
C22_Witness ==
    /\ lastCall.op = "validateCalibration"
    /\ AllPointsSet /\ CenterOff /\ ~RangeTooSmall /\ ~Asymmetric
    /\ lastCall.result.quality = <<9, 10>>
    /\ lastCall.result.issues = <<"Center point not neutral">>
    /\ ~lastCall.result.valid

\* C21: the pipeline built from a schema holds one processor for each entry
\* of the pipeline list whose name is registered, in the order of the list;
\* an entry with an unknown name is omitted without an exception.
C21_UnknownProcessorsOmitted ==
    lastOp = "build" =>
        LET known == SelectSeq(PipelineOf(builder), LAMBDA n : n \in DOMAIN PROCESSOR_REGISTRY)
        IN /\ ~builder.threw
           /\ builder.adapter.processors = [i \in 1..Len(known) |-> PROCESSOR_REGISTRY[known[i]]]

\* this.calibration.reference and this.calibration.tuning as values, absent
\* or present
ReferenceValue == IF Has(Cal, "reference") THEN <<refs[Cal["reference"]]>> ELSE <<>>

TuningValue == IF Has(Cal, "tuning") THEN <<Cal["tuning"]>> ELSE <<>>

\* C23: setTuning and resetTuning leave calibration.reference as it is, and
\* captureReferencePoint leaves calibration.tuning as it is, in every state
\* of the calibration.
C23_TuningAndReferenceIndependent ==
    [][/\ (Calls("setTuning") \/ Calls("resetTuning")) => ReferenceValue' = ReferenceValue
       /\ Calls("captureReferencePoint") => TuningValue' = TuningValue]_vars

\* a point was captured after the tuning had been changed
C23_Witness ==
    /\ lastOp = "capture"
    /\ TuningValue # <<>> /\ Has(TuningValue[1], "reverse") /\ TuningValue[1]["reverse"]
    /\ ReferenceValue # <<>> /\ ReferenceValue[1] # DefaultReference

\* C24: build() with no schema set uses the built-in default schema whatever
\* is registered, with no source set an ASCIIVision source, with no sink
\* added exactly one events sink; what was set on the builder is used as set.
C24_BuildDefaults ==
    [][(lastOp' = "build" /\ ~builder'.threw) =>
          /\ builder'.adapter.schema = (IF builder.schema = "" THEN "default" ELSE builder.schema)
          /\ builder'.adapter.source =
                (IF builder.source = "" THEN "asciivision" ELSE builder.source)
          /\ builder'.adapter.sinks =
                (IF builder.sinks = <<>> THEN <<"events">> ELSE builder.sinks)]_vars

(***************************************************************************)
(* The MIDI and gamepad adapters and the events they standardize.          *)
(***************************************************************************)
\* PROTOCOL.createEvent: the fixed fields, then the extras spread over them
\* (the time stamp _t is left out)
createEvent(source, device, type, control, value, raw, extras) ==
    ObjectAssign([_src |-> "controldeck", _v |-> 1, source |-> source, device |-> device,
                  type |-> type, control |-> control, value |-> value, raw |-> raw],
                 extras)

RECURSIVE BitOr(_, _)
\* a | b of two non-negative integers
BitOr(a, b) ==
    IF a = 0 THEN b
    ELSE IF b = 0 THEN a
    ELSE 2 * BitOr(a \div 2, b \div 2) + (IF a % 2 = 1 \/ b % 2 = 1 THEN 1 ELSE 0)

\* ((data2 << 7) | data1) / 16383
PitchBend(data1, data2) == NumDiv(Int2Num(BitOr(data2 * 128, data1)), Int2Num(16383))

\* the event _handleMessage makes of a message from input port "port", as a
\* sequence: empty when the message is of no handled type
MidiEvent(status, data1, data2, channel, type) ==
    IF type = 176
    THEN <<createEvent("midi", "port", "continuous", <<"cc", data1>>,
                       NumDiv(Int2Num(data2), Int2Num(127)),
                       [status |-> status, cc |-> data1, value |-> data2],
                       [channel |-> channel])>>
    ELSE IF type = 144 /\ data2 > 0
    THEN <<createEvent("midi", "port", "trigger", <<"note", data1>>,
                       NumDiv(Int2Num(data2), Int2Num(127)),
                       [status |-> status, note |-> data1, velocity |-> data2],
                       [channel |-> channel, pressed |-> TRUE, velocity |-> data2])>>
    ELSE IF type = 128 \/ (type = 144 /\ data2 = 0)
    THEN <<createEvent("midi", "port", "trigger", <<"note", data1>>, Zero,
                       [status |-> status, note |-> data1, velocity |-> 0],
                       [channel |-> channel, pressed |-> FALSE, velocity |-> 0])>>
    ELSE IF type = 224
    THEN <<createEvent("midi", "port", "continuous", <<"pitchbend">>, PitchBend(data1, data2),
                       [status |-> status, lsb |-> data1, msb |-> data2],
                       [channel |-> channel])>>
    ELSE <<>>

\* channel = (status & 0x0F) + 1, type = status & 0xF0
_handleMessage(status, data1, data2) ==
    MidiEvent(status, data1, data2, (status % 16) + 1, status - (status % 16))

HandleMessage(status, data1, data2) ==
    /\ events' = _handleMessage(status, data1, data2)
    /\ lastOp' = "midi"
    /\ HistReset
    /\ UNCHANGED <<engineVars, wrapperVars, handleVars, prevButtons, prevAxes, builder, calVars, adapterVars, sourceVars, connected,
                   emitted, stopped>>

\* PROFILES['generic']: mapping, axes and deadzone
ButtonMapping == [name \in {"a", "b"} |-> IF name = "a" THEN 0 ELSE 1]

AxesMapping == [name \in {"left-x", "left-y"} |-> IF name = "left-x" THEN 0 ELSE 1]

Deadzone == <<1, 10>>

\* Object.entries(map).find(([k, v]) => v === idx)?.[0] || prefix + idx
ControlName(map, idx, prefix) ==
    IF \E k \in DOMAIN map : map[k] = idx
    THEN <<CHOOSE k \in DOMAIN map : map[k] = idx>>
    ELSE <<prefix, idx>>

\* btn.pressed || btn.value > 0.5
Pressed(btn) == btn.pressed \/ NumLt(Half, btn.value)

\* this.prevButtons[idx] || false
WasPressed(idx) == IF Has(prevButtons, idx) THEN prevButtons[idx] ELSE FALSE

ButtonEvent(btn, idx) ==
    IF Pressed(btn) # WasPressed(idx)
    THEN <<createEvent("gamepad", "pad", "trigger", ControlName(ButtonMapping, idx, "btn"),
                       IF Pressed(btn) THEN One ELSE Zero,
                       [index |-> idx, value |-> btn.value],
                       [pressed |-> Pressed(btn), channel |-> 0])>>
    ELSE <<>>

\* Math.abs(val) < deadzone ? 0 : val
Applied(val) == IF NumLt(NumAbs(val), Deadzone) THEN Zero ELSE val

\* this.prevAxes[idx] || 0
PrevAxis(idx) == IF Has(prevAxes, idx) /\ Truthy(prevAxes[idx]) THEN prevAxes[idx] ELSE Zero

\* an axis event that carries the axis value as it is read
AxisValueRaw(applied) == applied

\* (applied + 1) / 2
AxisValue(applied) == NumDiv(NumAdd(applied, One), Two)

AxisEvent(val, idx) ==
    IF NumLt(<<1, 100>>, NumAbs(NumSub(Applied(val), Applied(PrevAxis(idx)))))
    THEN <<createEvent("gamepad", "pad", "continuous", ControlName(AxesMapping, idx, "axis"),
                       AxisValue(Applied(val)),
                       [index |-> idx, value |-> val],
                       [channel |-> 0])>>
    ELSE <<>>

RECURSIVE Concat(_)
Concat(seqs) == IF seqs = <<>> THEN <<>> ELSE Head(seqs) \o Concat(Tail(seqs))

\* _processState(gp): the button events, then the axis events; every
\* button and axis read is remembered
_processState(buttons, axes) ==
    /\ events' = Concat([i \in 1..Len(buttons) |-> ButtonEvent(buttons[i], i - 1)])
                  \o Concat([i \in 1..Len(axes) |-> AxisEvent(axes[i], i - 1)])
    /\ prevButtons' = [idx \in DOMAIN prevButtons \cup 0..(Len(buttons) - 1) |->
                          IF idx < Len(buttons) THEN Pressed(buttons[idx + 1]) ELSE prevButtons[idx]]
    /\ prevAxes' = [idx \in DOMAIN prevAxes \cup 0..(Len(axes) - 1) |->
                       IF idx < Len(axes) THEN axes[idx + 1] ELSE prevAxes[idx]]

\* a poll of a connected gamepad whose buttons and axes are as given
ProcessState(buttons, axes) ==
    /\ _processState(buttons, axes)
    /\ lastOp' = "gamepad"
    /\ HistReset
    /\ UNCHANGED <<engineVars, wrapperVars, handleVars, builder, calVars, adapterVars, sourceVars, connected, emitted, stopped>>

\* status bytes: control change, note on (channels 1 and 2), note off, pitch
\* bend, and program change, which the adapter does not handle
StatusBytes == {176, 144, 145, 128, 224, 192}

DataBytes == {0, 64, 127}

\* gp.buttons: the states of a button
ButtonStates ==
    {[pressed |-> FALSE, value |-> Zero], [pressed |-> TRUE, value |-> One],
     [pressed |-> FALSE, value |-> <<3, 4>>]}

\* gp.axes values
AxisValues == {NumNeg(One), NumNeg(Half), <<1, 20>>, Zero, One}

InitEvents ==
    /\ builder = Built
    /\ DevicesIdle
    /\ NoneReleased
    /\ EngineIdle
    /\ Construct(DefaultOutputs, EmptyMap)
    /\ Started(<<>>)

NextEvents ==
    \/ \E status \in StatusBytes, data1, data2 \in DataBytes : HandleMessage(status, data1, data2)
    \/ \E b0 \in ButtonStates, a0 \in AxisValues, a1 \in {Zero, One} :
          ProcessState(<<b0>>, <<a0, a1>>)

SpecEvents == InitEvents /\ [][NextEvents]_vars

\* C25: every standardized event of the MIDI adapter (data bytes 0..127) and
\* of the gamepad adapter (button changes, axis values in [-1,1]) has _src
\* 'controldeck', _v 1 and a value in [0,1].
C25_EventsStandardized ==
    \A i \in 1..Len(events) :
        /\ events[i]["_src"] = "controldeck"
        /\ events[i]["_v"] = 1
        /\ InUnit(events[i]["value"])

\* a poll that produced an axis event for a stick pushed all the way left
C25_Witness ==
    /\ lastOp = "gamepad"
    /\ \E i \in 1..Len(events) :
          events[i]["type"] = "continuous" /\ events[i]["raw"].value = NumNeg(One)
                                           /\ events[i]["value"] = Zero

(***************************************************************************)
(* processor.process(context) of the calibrate, smooth and flick-detect    *)
(* processors of the pipeline, each on the contexts a frame can bring it.  *)
(***************************************************************************)
Stage(name, ctx) ==
    /\ emitted' = emitted + 1
    /\ \E r \in {StageProcess(name, ctx, procState)} :
          /\ lastCtx' = r.ctx
          /\ held' = "none"
          /\ procState' = r.ps
          /\ stageLog' = <<[name |-> name, threw |-> FALSE, in |-> ctx, out |-> r.ctx]>>
    /\ lastOp' = "stage"
    /\ lastFrame' = NoFrame
    /\ emitLog' = <<>>
    /\ invoked' = <<>>
    /\ caught' = 0
    /\ stageFaults' = {}
    /\ sinkFaults' = {}
    /\ UNCHANGED <<engineVars, wrapperVars, handleVars, deviceVars, builder, calVars, running, unsubscribe, stats, calls, sourceVars,
                   connected, stopped>>

CalibrateStage(ctx) == emitted < MaxStageCalls /\ Stage("CalibrateProcessor", ctx)

SmoothStage(ctx) == emitted < MaxStageCalls /\ Stage("SmoothProcessor", ctx)

FlickStage(ctx) == emitted < MaxStageCalls /\ Stage("FlickDetectProcessor", ctx)

\* derived['hand-rotation'] of a frame
Rotations == {Zero, <<3, 10>>, <<-1, 4>>, <<13, 50>>, <<-13, 25>>, Two}

\* calibration.reference: the schema's, a captured one, one whose pronate
\* point was stored with rotation 0, one whose three points were stored in
\* the same pose, and one with no center
References ==
    {DefaultReference, OtherReference,
     [center |-> RefPoint(Zero, <<1, 50>>), supinate |-> RefPoint(<<-1, 2>>, <<1, 50>>),
      pronate |-> RefPoint(Zero, <<1, 50>>)],
     [center |-> RefPoint(<<3, 10>>, <<1, 50>>), supinate |-> RefPoint(<<3, 10>>, <<1, 50>>),
      pronate |-> RefPoint(<<3, 10>>, <<1, 50>>)],
     [supinate |-> RefPoint(<<-1, 2>>, <<1, 50>>)]}

Tunings == {DefaultTuning, OtherTuning, EmptyMap}

ContextOf(derived, calibrated, smoothed, calibration) ==
    [FreshContext(NoFrame, calibration) EXCEPT
        !.derived = derived, !.calibrated = calibrated, !.smoothed = smoothed]

\* the contexts the extract stage hands to the calibrate stage
CalibrateInputs ==
    {ContextOf([k \in {"hand-rotation"} |-> raw], EmptyMap, EmptyMap,
               [reference |-> reference, tuning |-> tuning]) :
        raw \in Rotations, reference \in References, tuning \in Tunings}

\* the contexts the calibrate stage hands to the smooth stage
SmoothInputs ==
    {ContextOf([k \in {"finger-spread"} |-> spread],
               [k \in {"hand-rotation-calibrated", "hand-center-calibrated"} |->
                   IF k = "hand-rotation-calibrated" THEN theta ELSE center],
               EmptyMap, [reference |-> DefaultReference, tuning |-> DefaultTuning]) :
        spread \in {Zero, One}, theta \in {Zero, <<1, 100>>, Half, NumNeg(One), One},
        center \in {Vec(Zero, Zero), Vec(One, NumNeg(One))}}
    \cup {ContextOf(EmptyMap, EmptyMap, EmptyMap,
                    [reference |-> DefaultReference, tuning |-> DefaultTuning])}

\* the contexts the smooth stage hands to the flick-detect stage
FlickInputs ==
    {ContextOf(EmptyMap, EmptyMap, [SmoothInit EXCEPT !.theta = theta],
               [reference |-> DefaultReference, tuning |-> DefaultTuning]) :
        theta \in {Zero, <<1, 16>>, NumNeg(Half), One}}
    \cup {ContextOf(EmptyMap, EmptyMap, EmptyMap,
                    [reference |-> DefaultReference, tuning |-> DefaultTuning])}

NextStages ==
    \/ \E ctx \in CalibrateInputs : CalibrateStage(ctx)
    \/ \E ctx \in SmoothInputs : SmoothStage(ctx)
    \/ \E ctx \in FlickInputs : FlickStage(ctx)

SpecStages == InitEvents /\ [][NextStages]_vars

\* the stage of the named processor has just processed a context
Staged(name) == lastOp = "stage" /\ stageLog[1].name = name

\* a reference point's stored rotation, dflt when the point is not set
StoredOr(reference, point, dflt) ==
    IF Has(reference, point) THEN reference[point].rawRotation ELSE dflt

\* (raw - center) / (thetaRange / 2), thetaRange being pronate - supinate of
\* the stored rotations
Normalized(raw, reference) ==
    NumDiv(NumSub(raw, StoredOr(reference, "center", Zero)),
           NumDiv(NumSub(StoredOr(reference, "pronate", R052),
                         StoredOr(reference, "supinate", NumNeg(R052))), Two))

\* the calibrate stage had a rotation and a center reference to work on
Calibrated ==
    /\ Staged("CalibrateProcessor")
    /\ Has(stageLog[1].in.derived, "hand-rotation")
    /\ Has(stageLog[1].in.calibration.reference, "center")

\* C27: thetaRange is pronate.rawRotation - supinate.rawRotation whenever the
\* points are set, a stored 0 included, and +0.52 / -0.52 only for a point
\* that is not set; normalized = (raw - center.rawRotation) / (thetaRange / 2)
\* times sensitivity.left when negative and sensitivity.right otherwise, so
\* that a raw rotation equal to center.rawRotation yields 0.
C27_NormalizedFromStoredReference ==
    Calibrated =>
        LET in == stageLog[1].in
            raw == in.derived["hand-rotation"]
            out == stageLog[1].out.calibrated["hand-rotation-calibrated"]
        IN /\ out = Reverse(MathMax(NumNeg(One),
                                    MathMin(One, Sensitize(Normalized(raw, in.calibration.reference),
                                                           Sensitivity(in.calibration.tuning)))),
                            in.calibration.tuning)
           /\ raw = StoredOr(in.calibration.reference, "center", Zero) => out = Zero

\* C28: for every hand-rotation, every set of reference points (supinate
\* equal to pronate included) and every tuning, hand-rotation-calibrated lies
\* in [-1,1].
C28_CalibratedWithinRange ==
    Calibrated =>
        /\ NumLe(NumNeg(One), stageLog[1].out.calibrated["hand-rotation-calibrated"])
        /\ NumLe(stageLog[1].out.calibrated["hand-rotation-calibrated"], One)

\* the targets the smooth stage reads from a context, by channel
Target(ctx, channel) ==
    CASE channel = "x" -> CenterOf(ctx.calibrated).x
      [] channel = "y" -> CenterOf(ctx.calibrated).y
      [] channel = "theta" -> OrZero(ctx.calibrated, "hand-rotation-calibrated")
      [] channel = "spread" -> OrZero(ctx.derived, "finger-spread")

\* b lies between a and c, the ends included
Between(a, b, c) == (NumLe(a, b) /\ NumLe(b, c)) \/ (NumLe(c, b) /\ NumLe(b, a))

\* one channel of the smooth stage: from state old to state new under target
Approaches(old, new, target) ==
    /\ IF NumLt(NumAbs(NumSub(target, old)), SmoothConfig.deadzone)
       THEN new = old
       ELSE /\ Between(old, new, target)
            /\ new = NumAdd(old, NumMul(NumSub(target, old), NumSub(One, SmoothConfig.factor)))
    /\ NumLe(NumAbs(NumSub(target, new)), NumAbs(NumSub(target, old)))
    /\ target = old => new = old

\* C29: SmoothProcessor, per channel (x, y, theta, spread): a target within
\* the deadzone of the state leaves the state as it is; otherwise the new
\* state lies between the old state and the target, moved by delta * (1 -
\* factor); the distance to the target never grows, a target equal to the
\* state changes nothing, and the context returned holds the new state.
C29_SmoothApproachesTarget ==
    [][Staged("SmoothProcessor")' =>
          \A channel \in {"x", "y", "theta", "spread"} :
              /\ Approaches(procState.smooth[channel], procState'.smooth[channel],
                            Target(stageLog'[1].in, channel))
              /\ lastCtx'.smoothed[channel] = procState'.smooth[channel]]_vars

\* a second frame moved theta on toward the same target without reaching it
C29_Witness ==
    /\ Staged("SmoothProcessor")
    /\ emitted = 2
    /\ Target(stageLog[1].in, "theta") = One
    /\ procState.smooth.theta = <<3, 4>>
    /\ procState.smooth.spread = Zero

\* C30: on every frame FlickDetectProcessor sets the accumulated velocity to
\* velocity * decay + (theta - lastTheta) and lastTheta to theta, and puts
\* gestures.flick = {amount, direction, velocity} into the context returned,
\* amount = min(1, |velocity| / threshold) in [0,1], direction the sign of
\* the velocity in {-1, 0, 1}, also when the amount is 0.
C30_FlickUpdate ==
    [][Staged("FlickDetectProcessor")' =>
          LET theta == OrZero(stageLog'[1].in.smoothed, "theta")
              acc == NumAdd(NumMul(procState.flick.velocity, FlickConfig.decay),
                            NumSub(theta, procState.flick.lastTheta))
              flick == lastCtx'.gestures["flick"]
          IN /\ procState'.flick = [lastTheta |-> theta, velocity |-> acc]
             /\ Has(lastCtx'.gestures, "flick")
             /\ DOMAIN flick = {"amount", "direction", "velocity"}
             /\ flick.velocity = acc
             /\ flick.amount = (IF NumLt(NumDiv(NumAbs(acc), FlickConfig.threshold), One)
                                THEN NumDiv(NumAbs(acc), FlickConfig.threshold) ELSE One)
             /\ InUnit(flick.amount)
             /\ flick.direction = (IF NumLt(acc, Zero) THEN NumNeg(One)
                                   ELSE IF NumLt(Zero, acc) THEN One ELSE Zero)]_vars

\* a frame after a flick whose velocity had decayed by half: theta is at
\* rest and the record is still there
C30_Witness ==
    /\ Staged("FlickDetectProcessor")
    /\ emitted = 2
    /\ procState.flick = [lastTheta |-> One, velocity |-> Half]
    /\ lastCtx.gestures["flick"].amount = One
    /\ lastCtx.gestures["flick"].direction = One

(***************************************************************************)
(* The life cycle with destroy(): start, frames, stop, destroy, start.     *)
(***************************************************************************)
NextReset ==
    \/ Next
    \/ Destroy

SpecReset == Init /\ [][NextReset]_vars

\* the pipeline's result for a frame on a pipeline as constructed
FreshResult(frame) == PipelineProcess(frame, CalView(Cal, refs), ProcInit, {})

\* the pipeline result r gives the context ctx, the outputs the adapter adds
\* to it apart, and the processors' state ps
ResultIs(r, ctx, ps) == [ctx EXCEPT !.outputs = EmptyMap] = r.ctx /\ ps = r.ps

\* the sub-map each stage writes
OwnSubMap(name) ==
    CASE name = "ExtractProcessor" -> "derived"
      [] name = "CalibrateProcessor" -> "calibrated"
      [] name = "SmoothProcessor" -> "smoothed"
      [] name = "FlickDetectProcessor" -> "gestures"

SubMapNames == {"raw", "derived", "calibrated", "smoothed", "gestures", "outputs", "calibration"}

C31_ResetRestoresFreshState ==
    [][/\ lastOp' = "destroy" =>
             /\ procState'.smooth = [x |-> Zero, y |-> Zero, theta |-> Zero, spread |-> Zero]
             /\ procState'.flick = [lastTheta |-> Zero, velocity |-> Zero]
       /\ lastOp' \notin {"destroy", "emit"} => procState' = procState
       /\ (lastOp' = "emit" /\ procState = ProcInit /\ stats'.detectedFrames = stats.detectedFrames + 1) =>
             ResultIs(FreshResult(lastFrame'), lastCtx', procState')]_vars

\* the second frame, processed after a destroy() and a new start(), left the
\* processors where the first frame had left them
C31_Witness ==
    /\ Pipelined
    /\ emitted = 2
    /\ stats.detectedFrames = 2
    /\ procState = FreshResult(lastFrame).ps
    /\ procState.smooth.theta # Zero

(***************************************************************************)
(* The Recorder: playback of a recording.  Entry k of the recording is     *)
(* events[k - 1]; a timeout set by _playNext holds the entry it was set    *)
(* for.  Whether an entry is due (delay <= 0) depends on the clock: due is *)
(* the number of entries _playNext finds due before it sets a timeout.     *)
(***************************************************************************)
MaxEvents == 2
MaxPlays == 2

\* the recorder and the deliveries made so far, in the course of a call
Playing(r, delivered, due) == [r |-> r, delivered |-> delivered, due |-> due]

\* this._emitPlayback(entry.event); this.playbackIndex++
Played(w, k) ==
    [w EXCEPT !.delivered = Append(@, k), !.r.playbackIndex = @ + 1]

RECURSIVE _playNext(_)
_playNext(w) ==
    IF ~w.r.playing \/ w.r.playbackIndex >= w.r.events
    THEN [w EXCEPT !.r.playing = FALSE]
    ELSE IF w.due > 0
    THEN _playNext([Played(w, w.r.playbackIndex + 1) EXCEPT !.due = @ - 1])
    ELSE [w EXCEPT !.r.timers[w.r.playbackIndex + 1] = @ + 1]

\* play(onEvent)
play(due) ==
    IF recorder.events = 0 THEN Playing(recorder, playback.delivered, 0)
    ELSE _playNext(Playing([recorder EXCEPT !.playing = TRUE, !.playbackIndex = 0], <<>>, due))

Play(due) ==
    /\ playback.plays < MaxPlays
    /\ recorder' = play(due).r
    /\ playback' = [delivered |-> play(due).delivered, plays |-> playback.plays + 1, stopped |-> FALSE]
    /\ lastOp' = "play"
    /\ HistReset
    /\ UNCHANGED <<pollVars, wrapperVars, handleVars, deviceVars, builder, calVars, adapterVars, sourceVars,
                   connected, emitted, stopped>>

\* stopPlayback(): this.playing = false
StopPlayback ==
    /\ recorder' = [recorder EXCEPT !.playing = FALSE]
    /\ playback' = [playback EXCEPT !.stopped = TRUE]
    /\ lastOp' = "stopPlayback"
    /\ HistReset
    /\ UNCHANGED <<pollVars, wrapperVars, handleVars, deviceVars, builder, calVars, adapterVars, sourceVars,
                   connected, emitted, stopped>>

\* the callback of a timeout set for entry k
timeout(k, due) ==
    _playNext(Played(Playing([recorder EXCEPT !.timers[k] = @ - 1], playback.delivered, due), k))

Timeout(k, due) ==
    /\ k \in 1..recorder.events
    /\ recorder.timers[k] > 0
    /\ recorder' = timeout(k, due).r
    /\ playback' = [playback EXCEPT !.delivered = timeout(k, due).delivered]
    /\ lastOp' = "timeout"
    /\ HistReset
    /\ UNCHANGED <<pollVars, wrapperVars, handleVars, deviceVars, builder, calVars, adapterVars, sourceVars,
                   connected, emitted, stopped>>

\* an engine whose recorder holds a recording of up to MaxEvents events
InitRecorder ==
    /\ \E n \in 0..MaxEvents : recorder = NewRecorder(n)
    /\ playback = NoPlayback
    /\ polling = FALSE
    /\ scheduled = 0
    /\ polls = 0
    /\ builder = Built
    /\ DevicesIdle
    /\ NoneReleased
    /\ Construct(DefaultOutputs, EmptyMap)
    /\ Started(<<>>)

NextRecorder ==
    \/ \E due \in 0..MaxEvents : Play(due)
    \/ StopPlayback
    \/ \E k \in 1..MaxEvents, due \in 0..MaxEvents : Timeout(k, due)

SpecRecorder == InitRecorder /\ [][NextRecorder]_vars

\* C38: once stopPlayback() has been called, and until play() is called
\* again, the playback callback is given no further event.
C38_NoDeliveryAfterStopPlayback ==
    [][(playback.stopped /\ lastOp' # "play") => playback'.delivered = playback.delivered]_vars

\* C39: the events given to the callback since the last play() are the
\* recorded ones in recorded order, none twice and none skipped, and when
\* the playback has ended by itself they are all of them.
C39_PlaybackInOrderOnce ==
    /\ \A k \in 1..Len(playback.delivered) : playback.delivered[k] = k
    /\ (/\ playback.plays > 0
        /\ ~playback.stopped
        /\ ~recorder.playing
        /\ \A k \in 1..recorder.events : recorder.timers[k] = 0)
       => Len(playback.delivered) = recorder.events

(***************************************************************************)
(* The polling loop of the GamepadAdapter.  _poll ends by requesting an    *)
(* animation frame for itself; an animation frame runs every callback      *)
(* requested for it.  A gamepad is connected, its state read by each poll. *)
(***************************************************************************)
MaxLoops == 3

\* startPolling(): if (this.polling) return; this.polling = true; this._poll()
StartPolling(buttons, axes) ==
    /\ scheduled < MaxLoops
    /\ IF polling
       THEN UNCHANGED <<polling, scheduled, deviceVars>>
       ELSE /\ polling' = TRUE
            /\ _processState(buttons, axes)
            /\ scheduled' = scheduled + 1
    /\ lastOp' = "startPolling"
    /\ HistReset
    /\ UNCHANGED <<polls, recorderVars, wrapperVars, handleVars, builder, calVars, adapterVars, sourceVars,
                   connected, emitted, stopped>>

\* stopPolling(): this.polling = false
StopPolling ==
    /\ polling' = FALSE
    /\ lastOp' = "stopPolling"
    /\ HistReset
    /\ UNCHANGED <<scheduled, polls, recorderVars, wrapperVars, handleVars, deviceVars, builder, calVars,
                   adapterVars, sourceVars, connected, emitted, stopped>>

\* an animation frame: every requested _poll runs.  While polling is true
\* each records a poll, reads the same gamepad state (the first finds the
\* changes, the others find none) and requests the next frame; otherwise
\* each returns at once
AnimationFrame(buttons, axes) ==
    /\ scheduled > 0
    /\ IF polling
       THEN /\ polls' = scheduled
            /\ _processState(buttons, axes)
            /\ UNCHANGED scheduled
       ELSE /\ polls' = 0
            /\ scheduled' = 0
            /\ UNCHANGED deviceVars
    /\ lastOp' = "frame"
    /\ HistReset
    /\ UNCHANGED <<polling, recorderVars, wrapperVars, handleVars, builder, calVars, adapterVars, sourceVars,
                   connected, emitted, stopped>>

NextPolling ==
    \/ \E b0 \in ButtonStates, a0 \in {Zero, One} : StartPolling(<<b0>>, <<a0>>)
    \/ StopPolling
    \/ \E b0 \in ButtonStates, a0 \in {Zero, One} : AnimationFrame(<<b0>>, <<a0>>)

SpecPolling == InitEvents /\ [][NextPolling]_vars

\* C40: at most one _poll callback is requested at any time, and an
\* animation frame records at most one poll.
C40_AtMostOnePollingLoop ==
    /\ scheduled <= 1
    /\ polls <= 1

====
